---- MODULE Spec2Model ----
(***************************************************************************)
(* Model of the ASER discourse extraction engine                           *)
(*   src/aser/relation.py               (class Relation)                   *)
(*   src/aser/extract/aser_extractor.py (DiscourseASERExtractor3)          *)
(*                                                                         *)
(* Weights are counted in units of 1.0.  An eid is a string, modelled as   *)
(* a sequence of character codes; "$" is the code Dollar.  sha1 is         *)
(* modelled as a collision-free digest (a positional numeral of the key),  *)
(* so that digests of equal length compare as their hex strings do.        *)
(***************************************************************************)
EXTENDS Integers, Sequences, FiniteSets, TLC

\* ------------------------------------------------------------------ bounds
MaxSent == 3        \* sentences in a paragraph
MaxEv == 2          \* eventualities in the working lists of one call
MaxIn == 3          \* eventualities handed to extract_relations_from_parsed_result
MaxExt == 1         \* eventualities the extractor returns for one projection
MaxConn == 2        \* connective candidates processed in one call
TokLen == 2         \* tokens in a sentence
NumEids == 2        \* distinct eventuality contents
MaxWeight == 2      \* cap on an accumulated weight in the Relation class spec
SentLen == 3        \* tokens in a sentence handed to a span projection
MaxDeps == 2        \* dependency triples of such a sentence
MaxMentions == 1    \* mention records of such a sentence
MaxBatch == 2       \* eventualities the extractor returns for one argument, batch spec
OrderSent == 2      \* sentences in a paragraph whose candidates are run in two orders
MaxParas == 2       \* paragraphs of one length handed to the clause segmenter
CacheSent == 2      \* sentences in such a paragraph
MaxCalls == 3       \* calls of one extractor that reach the clause segmenter
FormatSent == 2     \* sentences in a paragraph whose result is returned in a format
MaxInstances == 3   \* Relation instances alive at once in the instance spec
MaxSocks == 3       \* back sockets of one kind the server binds
MaxCnt == 3         \* messages the server forwards
CACHESIZE == 2      \* items a worker's response cache holds (512 in the code, line 20)
MaxSpan == 1000     \* tokens in the longest span handed to the argument matcher

\* ------------------------------------------------------ strings and hashes
Dollar == 0
EidChars == 1..NumEids
EIDS == {<<c>> : c \in EidChars}
EmptyStr == <<>>

Base == NumEids + 1

RECURSIVE Sha1(_)
Sha1(key) == IF key = <<>> THEN 1 ELSE Sha1(SubSeq(key, 1, Len(key) - 1)) * Base + key[Len(key)]

RECURSIVE LexLess(_, _)
LexLess(s, t) ==
    IF t = <<>> THEN FALSE
    ELSE IF s = <<>> THEN TRUE
    ELSE IF s[1] # t[1] THEN s[1] < t[1]
    ELSE LexLess(Tail(s), Tail(t))

\* ------------------------------------------------------------ relation.py
relation_senses == {"Reason", "Co_Occurrence"}

Weights == 1..2

Dicts == UNION {[D -> Weights] : D \in SUBSET relation_senses}

EmptyDict == [r \in {} |-> 0]

\* dict.get(r, 0)
Weight(d, r) == IF r \in DOMAIN d THEN d[r] ELSE 0

generate_rid_unordered(heid, teid) ==
    IF LexLess(teid, heid) THEN Sha1(teid \o <<Dollar>> \o heid)
    ELSE Sha1(heid \o <<Dollar>> \o teid)
generate_rid(heid, teid) == Sha1(heid \o <<Dollar>> \o teid)

\* lines 27-31 and 40-44: for r, cnt in x.items(): add or create
MergeWeights_overwrite(relations, x) ==
    [r \in DOMAIN relations \cup DOMAIN x |->
        IF r \in DOMAIN x THEN x[r] ELSE relations[r]]

MergeWeights(relations, x) ==
    [r \in DOMAIN relations \cup DOMAIN x |->
        IF r \notin DOMAIN x THEN relations[r]
        ELSE IF r \notin DOMAIN relations THEN x[r]
        ELSE relations[r] + x[r]]

\* lines 33-37: for r in x: add 1.0 or create with 1.0
RECURSIVE AddSenses(_, _)
AddSenses(relations, l) ==
    IF l = <<>> THEN relations
    ELSE AddSenses(MergeWeights(relations, [r \in {l[1]} |-> 1]), Tail(l))

\* x is a tagged value: [type |-> "None" | "dict" | "list" | "Relation", v |-> ...]
NoneArg == [type |-> "None", v |-> 0]
DictArg(d) == [type |-> "dict", v |-> d]
ListArg(l) == [type |-> "list", v |-> l]
RelArg(rel) == [type |-> "Relation", v |-> rel]

update_relations(self, x) ==
    IF x.type = "None" THEN self
    ELSE IF x.type = "dict" THEN [self EXCEPT !.relations = MergeWeights(@, x.v)]
    ELSE IF x.type = "list" THEN [self EXCEPT !.relations = AddSenses(@, x.v)]
    ELSE IF x.type = "Relation" THEN
        IF self.heid = x.v.heid /\ self.teid = x.v.teid
        THEN [self EXCEPT !.relations = MergeWeights(@, x.v.relations)]
        ELSE self
    ELSE self

\* __init__: a falsy heid/teid (None or "") becomes ""
Relation(heid, teid, relations) ==
    update_relations([heid |-> heid, teid |-> teid,
                      rid |-> generate_rid(heid, teid),
                      relations |-> EmptyDict], relations)

RelationAttrs == {"heid", "teid", "rid", "relations"}

\* to_dict: the attribute dictionary of the instance
to_dict(self) == [type |-> "dict", v |-> [a \in DOMAIN self |-> self[a]]]

\* from_dict: every attribute the instance has is set from the entry of d of that name
from_dict_norelations(self, d) ==
    [a \in DOMAIN self |-> IF a = "relations" THEN self[a] ELSE d.v[a]]
from_dict(self, d) == [a \in DOMAIN self |-> d.v[a]]

RelationMethods == {"__init__", "generate_rid", "update_relations", "to_dict", "from_dict"}

\* attribute read on a Relation instance: AttributeError when the class sets no such attribute
GetAttr(rel, name) ==
    IF name \in RelationAttrs THEN [ok |-> TRUE, v |-> rel[name]]
    ELSE [ok |-> FALSE, v |-> <<>>]

\* ------------------------------------------------- eventualities (aser.eventuality)
Tokens == 0..(TokLen - 1)

Eventuality(content, mapping) ==
    [content |-> content, eid |-> <<content>>, raw_sent_mapping |-> mapping, frequency |-> 1]

generate_eid(e) == <<e.content>>

Eventuality_update(self, x) ==
    IF self.eid = x.eid THEN [self EXCEPT !.frequency = @ + x.frequency] ELSE self

\* values of raw_sent_mapping
MappingValues(e) == {e.raw_sent_mapping[k] : k \in DOMAIN e.raw_sent_mapping}

Min(a, b) == IF a <= b THEN a ELSE b

\* threshold=0.99 of the engine's four calls of the matcher, as the fraction num / den
Threshold_loose == [num |-> 989, den |-> 1000]
Threshold == [num |-> 99, den |-> 100]

\* Simpson overlap coefficient |A & B| / min(|A|, |B|), as a fraction
Simpson(A, B) ==
    [num |-> Cardinality(A \cap B), den |-> Min(Cardinality(A), Cardinality(B))]

\* x >= y for fractions of non-negative denominators
FracGeq(x, y) == x.num * y.den >= y.num * x.den

\* set(argument["indices"])
ArgumentIndices(arg) == {arg.indices[k] : k \in DOMAIN arg.indices}

\* DiscourseRelationExtractor._match_argument_eventuality_by_Simpson, threshold 0.99
match_argument_eventuality_by_Simpson(arg, e) ==
    FracGeq(Simpson(ArgumentIndices(arg), MappingValues(e)), Threshold)

\* ------------------------------------------------------- sequence helpers
RECURSIVE Flatten(_)
Flatten(ss) == IF ss = <<>> THEN <<>> ELSE ss[1] \o Flatten(Tail(ss))

\* position pairs (p, q) in nested-loop order "for p in 1..n1: for q in 1..n2", filtered
PairsInOrder(n1, n2, Keep(_, _)) ==
    LET all == [k \in 1..(n1 * n2) |-> <<((k - 1) \div n2) + 1, ((k - 1) % n2) + 1>>]
    IN  SelectSeq(all, LAMBDA pq : Keep(pq[1], pq[2]))

\* sorted(values, key=lambda r: r.rid): stable insertion sort on the digest
RECURSIVE InsertByRid(_, _)
InsertByRid(sorted, x) ==
    IF sorted = <<>> THEN <<x>>
    ELSE IF x.rid < sorted[1].rid THEN <<x>> \o sorted
    ELSE <<sorted[1]>> \o InsertByRid(Tail(sorted), x)

RECURSIVE SortByRid(_)
SortByRid(s) ==
    IF s = <<>> THEN <<>>
    ELSE InsertByRid(SortByRid(SubSeq(s, 1, Len(s) - 1)), s[Len(s)])

\* sorted(values, key=lambda e: e.eid): stable insertion sort on the eid string
RECURSIVE InsertByEid(_, _)
InsertByEid(sorted, x) ==
    IF sorted = <<>> THEN <<x>>
    ELSE IF LexLess(x.eid, sorted[1].eid) THEN <<x>> \o sorted
    ELSE <<sorted[1]>> \o InsertByEid(Tail(sorted), x)

RECURSIVE SortByEid(_)
SortByEid(s) ==
    IF s = <<>> THEN <<>>
    ELSE InsertByEid(SortByEid(SubSeq(s, 1, Len(s) - 1)), s[Len(s)])

\* ---------------------------------------------------- aser_extractor.py
NoErr == "none"

\* lines 308-309 / 329-330 / 492-493: scan the bucket for (heid, teid)
RECURSIVE FindRelation(_, _, _, _)
FindRelation(relations, i, heid, teid) ==
    IF i > Len(relations) THEN [err |-> NoErr, idx |-> 0]
    ELSE LET hid == GetAttr(relations[i], "hid")
             tid == GetAttr(relations[i], "tid")
         IN  IF ~hid.ok THEN [err |-> "AttributeError", idx |-> 0]
             ELSE IF hid.v # heid THEN FindRelation(relations, i + 1, heid, teid)
             ELSE IF ~tid.ok THEN [err |-> "AttributeError", idx |-> 0]
             ELSE IF tid.v # teid THEN FindRelation(relations, i + 1, heid, teid)
             ELSE [err |-> NoErr, idx |-> i]

AddRelation_symmetric(relations, heid, teid, senses) ==
    [err |-> NoErr,
     rels |-> relations \o <<Relation(heid, teid, ListArg(senses)),
                             Relation(teid, heid, ListArg(senses))>>]

\* lines 307-314 / 328-335 / 491-498: merge the senses into the existing relation or append
AddRelation(relations, heid, teid, senses) ==
    LET f == FindRelation(relations, 1, heid, teid)
    IN  IF f.err # NoErr THEN [err |-> f.err, rels |-> relations]
        ELSE IF f.idx > 0 THEN
            IF "update" \in RelationMethods
            THEN [err |-> NoErr,
                  rels |-> [relations EXCEPT ![f.idx] = update_relations(@, ListArg(senses))]]
            ELSE [err |-> "AttributeError", rels |-> relations]
        ELSE [err |-> NoErr, rels |-> Append(relations, Relation(heid, teid, ListArg(senses)))]

ApplyPairs_fresh(relations, pairs, senses) ==
    [err |-> NoErr,
     rels |-> [k \in 1..Len(pairs) |-> Relation(pairs[k][1], pairs[k][2], ListArg(senses))]]

\* the (heid, teid) pairs of one connective, applied in loop order until one raises
RECURSIVE ApplyPairs(_, _, _)
ApplyPairs(relations, pairs, senses) ==
    IF pairs = <<>> THEN [err |-> NoErr, rels |-> relations]
    ELSE LET r == AddRelation(relations, pairs[1][1], pairs[1][2], senses)
         IN  IF r.err # NoErr THEN r ELSE ApplyPairs(r.rels, Tail(pairs), senses)

CoOccurrences_unordered(sent_eventualities) ==
    LET n == Len(sent_eventualities)
        pairs == PairsInOrder(n, n, LAMBDA p, q : p # q)
    IN  [k \in 1..Len(pairs) |->
            Relation(sent_eventualities[pairs[k][1]].eid, sent_eventualities[pairs[k][2]].eid,
                     ListArg(<<"Co_Occurrence">>))]

\* lines 269-273: one Co_Occurrence relation per position pair e1_idx < e2_idx
CoOccurrences(sent_eventualities) ==
    LET n == Len(sent_eventualities)
        pairs == PairsInOrder(n, n, LAMBDA p, q : p < q)
    IN  [k \in 1..Len(pairs) |->
            Relation(sent_eventualities[pairs[k][1]].eid, sent_eventualities[pairs[k][2]].eid,
                     ListArg(<<"Co_Occurrence">>))]

HasSense_always(sense) == TRUE

\* lines 290 / 482: the guard of the relation step
HasSense(sense) == sense # "" /\ sense # "None"

\* lines 293-314: both arguments in one sentence
SameSentencePairs(sent_eventualities, arg1, arg2) ==
    LET n == Len(sent_eventualities)
        pairs == PairsInOrder(n, n, LAMBDA p, q :
                    /\ p < q
                    /\ match_argument_eventuality_by_Simpson(arg1, sent_eventualities[p])
                    /\ match_argument_eventuality_by_Simpson(arg2, sent_eventualities[q]))
    IN  [k \in 1..Len(pairs) |->
            <<sent_eventualities[pairs[k][1]].eid, sent_eventualities[pairs[k][2]].eid>>]

\* lines 320-327: arguments in two sentences
CrossSentencePairs(sent_eventualities1, sent_eventualities2, arg1, arg2) ==
    LET pairs == PairsInOrder(Len(sent_eventualities1), Len(sent_eventualities2), LAMBDA p, q :
                    /\ match_argument_eventuality_by_Simpson(arg1, sent_eventualities1[p])
                    /\ match_argument_eventuality_by_Simpson(arg2, sent_eventualities2[q]))
    IN  [k \in 1..Len(pairs) |->
            <<sent_eventualities1[pairs[k][1]].eid, sent_eventualities2[pairs[k][2]].eid>>]

\* lines 285-335: one iteration of the connective loop of extract_relations_from_parsed_result.
\* Sentence indices are 0-based as in the source; buckets and lists are 1-based sequences.
RelationsStep(len, evs, rels, c) ==
    IF ~(c.complete /\ HasSense(c.sense)) THEN [err |-> NoErr, rels |-> rels]
    ELSE IF c.arg1.sent_idx = c.arg2.sent_idx THEN
        LET b == c.arg1.sent_idx + 1
            r == ApplyPairs(rels[b], SameSentencePairs(evs[b], c.arg1, c.arg2), <<c.sense>>)
        IN  [err |-> r.err, rels |-> [rels EXCEPT ![b] = r.rels]]
    ELSE
        LET relation_list_idx == c.arg1.sent_idx + len
        IN  IF relation_list_idx >= 2 * len - 1 THEN [err |-> "IndexError", rels |-> rels]
            ELSE LET b == relation_list_idx + 1
                     r == ApplyPairs(rels[b],
                              CrossSentencePairs(evs[c.arg1.sent_idx + 1], evs[c.arg2.sent_idx + 1],
                                                 c.arg1, c.arg2), <<c.sense>>)
                 IN  [err |-> r.err, rels |-> [rels EXCEPT ![b] = r.rels]]

\* names bound in aser_extractor.py by its imports (lines 1-15)
ModuleNames == {"bisect", "json", "copy", "deepcopy", "chain", "Eventuality", "Relation",
                "relation_senses", "SyntaxTree", "EMPTY_SENT_PARSED_RESULT"}

GroupByEid_keepall(acc, rest) == acc \o rest

\* lines 235-241 / 512-518: eid2eventuality, in insertion order
RECURSIVE GroupByEid(_, _)
GroupByEid(acc, rest) ==
    IF rest = <<>> THEN acc
    ELSE LET e == rest[1]
             hit == {i \in DOMAIN acc : acc[i].eid = e.eid}
         IN  IF hit = {} THEN GroupByEid(Append(acc, e), Tail(rest))
             ELSE LET i == CHOOSE j \in hit : TRUE
                  IN  GroupByEid([acc EXCEPT ![i] = Eventuality_update(@, e)], Tail(rest))

\* lines 235-243 / 512-520
MergeEventualities(para_evs) == SortByEid(GroupByEid(<<>>, Flatten(para_evs)))

\* lines 344-349 / 524-529: rid2relation, in insertion order; copier is the name the
\* source calls to copy the first relation of a rid
RECURSIVE GroupByRid(_, _, _)
GroupByRid(acc, rest, copier) ==
    IF rest = <<>> THEN [err |-> NoErr, rels |-> acc]
    ELSE LET relation == rest[1]
             hit == {i \in DOMAIN acc : acc[i].rid = relation.rid}
         IN  IF hit = {} THEN
                 IF copier \in ModuleNames
                 THEN GroupByRid(Append(acc, relation), Tail(rest), copier)
                 ELSE [err |-> "NameError", rels |-> acc]
             ELSE IF "update" \in RelationMethods
             THEN LET i == CHOOSE j \in hit : TRUE
                  IN  GroupByRid([acc EXCEPT ![i] = update_relations(@, RelArg(relation))],
                                 Tail(rest), copier)
             ELSE [err |-> "AttributeError", rels |-> acc]

\* lines 343-350 (copier "deeocopy") and 524-531 (copier "deepcopy")
MergeRelations(para_rels, copier) ==
    LET g == GroupByRid(<<>>, Flatten(para_rels), copier)
    IN  IF g.err # NoErr THEN g ELSE [err |-> NoErr, rels |-> SortByRid(g.rels)]

\* the mapping left as the extractor returned it, local to the projection
TranslateMapping_local(raw_sent_mapping, indices) == raw_sent_mapping

\* lines 222-223 / 419-420 / 460-461: raw_sent_mapping[k] = indices[v] for every item
TranslateMapping(raw_sent_mapping, indices) ==
    [k \in DOMAIN raw_sent_mapping |-> indices[raw_sent_mapping[k] + 1]]

\* lines 221-224: the eventualities of one clause, translated in place (the eid is not
\* recomputed), extend the sentence's list
ClauseStep(sent_eventualities, clause, eventualities) ==
    sent_eventualities \o
        [k \in 1..Len(eventualities) |->
            [eventualities[k] EXCEPT !.raw_sent_mapping = TranslateMapping(@, clause)]]

\* lines 418-429 / 459-470: remap, recompute the eid, append unless one of the first
\* len_existed entries has the same (eid, raw_sent_mapping)
RemapEventuality(e, indices) ==
    LET m == TranslateMapping(e.raw_sent_mapping, indices)
        r == [e EXCEPT !.raw_sent_mapping = m]
    IN  [r EXCEPT !.eid = generate_eid(r)]

RECURSIVE AppendNew(_, _, _)
AppendNew(sent_evs, len_existed, extracted) ==
    IF extracted = <<>> THEN sent_evs
    ELSE LET e == extracted[1]
             existed == \E i \in 1..len_existed :
                            /\ sent_evs[i].eid = e.eid
                            /\ sent_evs[i].raw_sent_mapping = e.raw_sent_mapping
         IN  AppendNew(IF existed THEN sent_evs ELSE Append(sent_evs, e), len_existed,
                       Tail(extracted))

\* lines 472-498: placement, senses and relation update for one candidate
ArgumentsStep(len, rels, c, eventualities1, eventualities2) ==
    LET a1 == c.arg1.sent_idx
        a2 == c.arg2.sent_idx
        senses == (IF a1 = a2 THEN <<"Co_Occurrence">> ELSE <<>>)
                  \o (IF HasSense(c.sense) THEN <<c.sense>> ELSE <<>>)
        pairs == LET ps == PairsInOrder(Len(eventualities1), Len(eventualities2),
                                        LAMBDA p, q : TRUE)
                 IN  [k \in 1..Len(ps) |->
                        <<eventualities1[ps[k][1]].eid, eventualities2[ps[k][2]].eid>>]
    IN  IF a1 # a2 /\ a1 + 1 # a2 THEN [err |-> NoErr, rels |-> rels]
        ELSE IF senses = <<>> THEN [err |-> NoErr, rels |-> rels]
        ELSE LET b == (IF a1 = a2 THEN a1 ELSE a1 + len) + 1
                 r == ApplyPairs(rels[b], pairs, senses)
             IN  [err |-> r.err, rels |-> [rels EXCEPT ![b] = r.rels]]

\* lines 381-498: one iteration of the connective loop of extract_from_parsed_result;
\* extracted1 / extracted2 are what the eventuality extractor returns for the projections
\* of arg1 / arg2
ConnectiveStep(len, evs, rels, c, extracted1, extracted2) ==
    IF ~c.complete THEN [err |-> NoErr, evs |-> evs, rels |-> rels]
    ELSE
    LET s1 == c.arg1.sent_idx + 1
        s2 == c.arg2.sent_idx + 1
        eventualities1 == [k \in 1..Len(extracted1) |->
                              RemapEventuality(extracted1[k], c.arg1.indices)]
        evsA == [evs EXCEPT ![s1] = AppendNew(@, Len(@), eventualities1)]
        eventualities2 == [k \in 1..Len(extracted2) |->
                              RemapEventuality(extracted2[k], c.arg2.indices)]
        evsB == [evsA EXCEPT ![s2] = AppendNew(@, Len(@), eventualities2)]
        r == ArgumentsStep(len, rels, c, eventualities1, eventualities2)
    IN  [err |-> r.err, evs |-> evsB, rels |-> r.rels]

\* ------------------------------------------------------------------ inputs
\* duplicate-free index sequences of one token (argument spans) and of any length (clauses)
ArgSpans == {<<t>> : t \in Tokens}

RECURSIVE SeqsUpTo(_, _)
SeqsUpTo(S, n) ==
    IF n = 0 THEN {<<>>}
    ELSE LET shorter == SeqsUpTo(S, n - 1)
         IN  shorter \cup {Append(q, x) : q \in {r \in shorter : Len(r) = n - 1}, x \in S}

IsDupFree(q) == \A i, j \in DOMAIN q : i # j => q[i] # q[j]

Clauses == {q \in SeqsUpTo(Tokens, TokLen) : q # <<>> /\ IsDupFree(q)}

\* what the eventuality extractor may return for a projection of n tokens
Extracted(n, max) ==
    SeqsUpTo({Eventuality(c, <<v>>) : c \in EidChars, v \in 0..(n - 1)}, max)

RECURSIVE TotalLen(_)
TotalLen(ss) == IF ss = <<>> THEN 0 ELSE Len(ss[1]) + TotalLen(Tail(ss))

\* the para_eventualities argument of extract_relations_from_parsed_result: per sentence
\* a list of eventualities as extract_eventualities_from_parsed_result returns them,
\* at most budget of them in all
RECURSIVE ParaEventualities(_, _)
ParaEventualities(n, budget) ==
    IF n = 0 THEN {<<>>}
    ELSE UNION {{<<l>> \o p : p \in ParaEventualities(n - 1, budget - Len(l))} :
                l \in SeqsUpTo({Eventuality(c, <<t>>) : c \in EidChars, t \in Tokens}, budget)}

\* "" stands for a missing sense (None)
SenseLabels == {"", "None", "Reason"}

NoArg == [sent_idx |-> 0, indices |-> <<>>]

Args(n) == [sent_idx : 0..(n - 1), indices : ArgSpans]

\* connective candidates of an n-sentence paragraph; complete means that the connective
\* indices, arg1 and arg2 are all present and non-empty.  The candidates are processed in
\* the order of the sort of lines 283 / 379, whose key (the connective's own sentence and
\* first token) is read nowhere else: a candidate carries only what the loop reads, and
\* every order of such candidates is the sorted order of some candidate list.
Candidates(n) ==
    [complete : {TRUE}, arg1 : Args(n), arg2 : Args(n), sense : SenseLabels]
    \cup (IF n = 0 THEN {}
          ELSE {[complete |-> FALSE, arg1 |-> NoArg, arg2 |-> NoArg, sense |-> "Reason"]})

\* --------------------------------------------------------------- variables
VARIABLES pc, entry, in_order, len_sentences, para_eventualities, para_relations,
          nconn, sent_idx, result_ev, result_rel, error, objs, lastOp,
          proj, call, mat, perm, cache, fmt, heap, srv, wrk

\* proj: the last span projection; call: the entry-point call in progress; mat: the last
\* call of the argument matcher; perm: one candidate list processed in two orders; cache:
\* the syntax-tree caches of the clause segmenter; fmt: one return of
\* extract_from_parsed_result in a requested format; heap: Relation instances and the
\* dicts they refer to; srv: the server's router; wrk: one worker of the server (each
\* used by its own specification below)
more == <<fmt, heap, srv, wrk>>

aux == <<proj, call, mat, perm, cache, more>>

engine == <<pc, entry, in_order, len_sentences, para_eventualities, para_relations,
            nconn, sent_idx, result_ev, result_rel, error>>

vars == <<pc, entry, in_order, len_sentences, para_eventualities, para_relations,
          nconn, sent_idx, result_ev, result_rel, error, objs, lastOp, proj, call, mat,
          perm, cache, fmt, heap, srv, wrk>>

NoProj == [op |-> "none"]

NoCall == [pc |-> "none"]

NoMatch == [op |-> "none"]

NoPerm == [op |-> "none"]

NoCache == [pc |-> "none"]

NoFmt == [pc |-> "none"]

NoHeap == [pc |-> "none"]

NoSrv == [pc |-> "none"]

NoWrk == [pc |-> "none"]

MoreIdle == fmt = NoFmt /\ heap = NoHeap /\ srv = NoSrv /\ wrk = NoWrk

AuxIdle ==
    /\ proj = NoProj /\ call = NoCall /\ mat = NoMatch /\ perm = NoPerm /\ cache = NoCache
    /\ MoreIdle

\* -------------------------------------------- specification: Relation class
ObjIds == 1..2

SenseLists == {<<>>} \cup {<<r>> : r \in relation_senses}
                     \cup {<<r, q>> : r \in relation_senses, q \in relation_senses}

MaxW(rel) == IF DOMAIN rel.relations = {} THEN 0
             ELSE CHOOSE w \in {rel.relations[r] : r \in DOMAIN rel.relations} :
                    \A r \in DOMAIN rel.relations : rel.relations[r] <= w

NoOp == [op |-> "none", self |-> 0, kind |-> "None", arg |-> 0]

EngineIdle ==
    /\ pc = "idle" /\ entry = "none" /\ in_order = TRUE /\ len_sentences = 0
    /\ para_eventualities = <<>> /\ para_relations = <<>>
    /\ nconn = 0 /\ sent_idx = 0
    /\ result_ev = <<>> /\ result_rel = <<>> /\ error = NoErr

InitRelation ==
    /\ EngineIdle
    /\ \E h \in EIDS \cup {EmptyStr}, t \in EIDS :
         objs = [i \in ObjIds |-> IF i = 1 THEN Relation(<<1>>, <<2>>, NoneArg)
                                           ELSE Relation(h, t, NoneArg)]
    /\ lastOp = NoOp
    /\ AuxIdle

UpdateWithRelation(i, j) ==
    /\ i # j
    /\ MaxW(update_relations(objs[i], RelArg(objs[j]))) <= MaxWeight
    /\ objs' = [objs EXCEPT ![i] = update_relations(objs[i], RelArg(objs[j]))]
    /\ UNCHANGED <<engine, aux>>
    /\ lastOp' = [op |-> "update_relations", self |-> i, kind |-> "Relation", arg |-> j]

UpdateWithDict(i, d) ==
    /\ MaxW(update_relations(objs[i], DictArg(d))) <= MaxWeight
    /\ objs' = [objs EXCEPT ![i] = update_relations(objs[i], DictArg(d))]
    /\ UNCHANGED <<engine, aux>>
    /\ lastOp' = [op |-> "update_relations", self |-> i, kind |-> "dict", arg |-> d]

UpdateWithList(i, l) ==
    /\ MaxW(update_relations(objs[i], ListArg(l))) <= MaxWeight
    /\ objs' = [objs EXCEPT ![i] = update_relations(objs[i], ListArg(l))]
    /\ UNCHANGED <<engine, aux>>
    /\ lastOp' = [op |-> "update_relations", self |-> i, kind |-> "list", arg |-> l]

UpdateWithNone(i) ==
    /\ objs' = [objs EXCEPT ![i] = update_relations(objs[i], NoneArg)]
    /\ UNCHANGED <<engine, aux>>
    /\ lastOp' = [op |-> "update_relations", self |-> i, kind |-> "None", arg |-> 0]

\* Relation().from_dict(objs[i].to_dict()): the decoded relation is the value of the
\* expression, kept in lastOp.arg; objs[i] is only read
RoundTrip(i) ==
    /\ lastOp' = [op |-> "from_dict", self |-> i, kind |-> "dict",
                  arg |-> from_dict(Relation(EmptyStr, EmptyStr, NoneArg), to_dict(objs[i]))]
    /\ UNCHANGED <<engine, objs, aux>>

NextRelation ==
    \/ \E i \in ObjIds, j \in ObjIds : UpdateWithRelation(i, j)
    \/ \E i \in ObjIds, d \in Dicts : UpdateWithDict(i, d)
    \/ \E i \in ObjIds, l \in SenseLists : UpdateWithList(i, l)
    \/ \E i \in ObjIds : UpdateWithNone(i)
    \/ \E i \in ObjIds : RoundTrip(i)

SpecRelation == InitRelation /\ [][NextRelation]_vars

\* ------------------------------------------------ specification: the engine
\* A call of one entry point of DiscourseASERExtractor3 on a paragraph that is a sequence
\* of len_sentences sentences, with the default output formats "Eventuality" / "Relation".
\*   entry "E": extract_eventualities_from_parsed_result
\*   entry "R": extract_relations_from_parsed_result
\*   entry "B": extract_from_parsed_result
Init ==
    /\ entry \in {"E", "R", "B"}
    /\ in_order \in BOOLEAN
    /\ len_sentences \in 0..MaxSent
    /\ para_eventualities \in (IF entry = "R" THEN ParaEventualities(len_sentences, MaxIn) ELSE {<<>>})
    /\ para_relations = <<>>
    /\ pc = "called"
    /\ nconn = 0 /\ sent_idx = 0
    /\ result_ev = <<>> /\ result_rel = <<>> /\ error = NoErr
    /\ objs = [i \in ObjIds |-> Relation(<<1>>, <<2>>, NoneArg)]
    /\ lastOp = NoOp
    /\ AuxIdle

Return(evs, rels) ==
    /\ pc' = "done"
    /\ result_ev' = evs
    /\ result_rel' = rels
    /\ error' = NoErr

Raise(err) ==
    /\ pc' = "error"
    /\ error' = err
    /\ UNCHANGED <<result_ev, result_rel>>

\* lines 206-207
E_Begin ==
    /\ pc = "called" /\ entry = "E"
    /\ para_eventualities' = [i \in 1..len_sentences |-> <<>>]
    /\ pc' = "clauses"
    /\ UNCHANGED <<entry, in_order, len_sentences, para_relations, nconn, sent_idx, result_ev, result_rel, error, objs, lastOp, aux>>

\* lines 209-224: one clause of sentence sent_idx; extracted is what the eventuality
\* extractor returns for the clause's projection
E_Clause(clause, extracted) ==
    /\ pc = "clauses" /\ sent_idx < len_sentences
    /\ TotalLen(para_eventualities) + Len(extracted) <= MaxEv
    /\ para_eventualities' = [para_eventualities EXCEPT ![sent_idx + 1] =
          ClauseStep(@, clause, extracted)]
    /\ UNCHANGED <<pc, entry, in_order, len_sentences, para_relations, nconn, sent_idx, result_ev, result_rel, error, objs, lastOp, aux>>

\* line 208: the next sentence of the zip
E_NextSentence ==
    /\ pc = "clauses" /\ sent_idx < len_sentences
    /\ sent_idx' = sent_idx + 1
    /\ UNCHANGED <<pc, entry, in_order, len_sentences, para_eventualities, para_relations,
                   nconn, result_ev, result_rel, error,
                   objs, lastOp, aux>>

\* lines 226-246
E_Return ==
    /\ pc = "clauses" /\ sent_idx = len_sentences
    /\ IF in_order THEN Return(para_eventualities, <<>>)
       ELSE Return(MergeEventualities(para_eventualities), <<>>)
    /\ UNCHANGED <<entry, in_order, len_sentences, para_eventualities, para_relations,
                   nconn, sent_idx, objs, lastOp, aux>>

\* lines 252-276
R_Begin ==
    /\ pc = "called" /\ entry = "R"
    /\ IF len_sentences = 0
       THEN /\ Return(<<>>, IF in_order THEN << <<>> >> ELSE <<>>)
            /\ UNCHANGED para_relations
       ELSE /\ para_relations' = [i \in 1..(2 * len_sentences - 1) |->
                    IF i <= len_sentences THEN CoOccurrences(para_eventualities[i]) ELSE <<>>]
            /\ pc' = "loop"
            /\ UNCHANGED <<result_ev, result_rel, error>>
    /\ UNCHANGED <<entry, in_order, len_sentences, para_eventualities, nconn, sent_idx, objs, lastOp, aux>>

\* lines 283-335: the next candidate of the sorted list
R_Connective(c) ==
    /\ pc = "loop" /\ entry = "R" /\ nconn < MaxConn
    /\ LET r == RelationsStep(len_sentences, para_eventualities, para_relations, c)
       IN  /\ para_relations' = r.rels
           /\ IF r.err = NoErr
              THEN pc' = "loop" /\ UNCHANGED <<result_ev, result_rel, error>>
              ELSE Raise(r.err)
    /\ nconn' = nconn + 1
    /\ UNCHANGED <<entry, in_order, len_sentences, para_eventualities, sent_idx,
                   objs, lastOp, aux>>

\* lines 336-350
R_Return ==
    /\ pc = "loop" /\ entry = "R"
    /\ IF in_order THEN Return(<<>>, para_relations)
       ELSE LET m == MergeRelations(para_relations, "deeocopy")
            IN  IF m.err = NoErr THEN Return(<<>>, m.rels) ELSE Raise(m.err)
    /\ UNCHANGED <<entry, in_order, len_sentences, para_eventualities, para_relations,
                   nconn, sent_idx, objs, lastOp, aux>>

B_Begin_extra ==
    /\ pc = "called" /\ entry = "B"
    /\ para_eventualities' = [i \in 1..len_sentences |-> <<>>]
    /\ para_relations' = [i \in 1..(2 * len_sentences) |-> <<>>]
    /\ pc' = "loop"
    /\ UNCHANGED <<entry, in_order, len_sentences, nconn, sent_idx, result_ev, result_rel,
                   error, objs, lastOp, aux>>

\* lines 370-372
B_Begin ==
    /\ pc = "called" /\ entry = "B"
    /\ para_eventualities' = [i \in 1..len_sentences |-> <<>>]
    /\ para_relations' = [i \in 1..(2 * len_sentences - 1) |-> <<>>]
    /\ pc' = "loop"
    /\ UNCHANGED <<entry, in_order, len_sentences, nconn, sent_idx, result_ev, result_rel, error, objs, lastOp, aux>>

\* lines 379-498: the next candidate of the sorted list
B_Connective(c, extracted1, extracted2) ==
    /\ pc = "loop" /\ entry = "B" /\ nconn < MaxConn
    /\ LET r == ConnectiveStep(len_sentences, para_eventualities, para_relations, c,
                               extracted1, extracted2)
       IN  /\ TotalLen(r.evs) <= MaxEv
           /\ para_eventualities' = r.evs
           /\ para_relations' = r.rels
           /\ IF r.err = NoErr
              THEN pc' = "loop" /\ UNCHANGED <<result_ev, result_rel, error>>
              ELSE Raise(r.err)
    /\ nconn' = nconn + 1
    /\ UNCHANGED <<entry, in_order, len_sentences, sent_idx, objs, lastOp, aux>>

\* lines 500-534
B_Return ==
    /\ pc = "loop" /\ entry = "B"
    /\ IF in_order THEN Return(para_eventualities, para_relations)
       ELSE LET m == MergeRelations(para_relations, "deepcopy")
            IN  IF m.err = NoErr THEN Return(MergeEventualities(para_eventualities), m.rels)
                ELSE Raise(m.err)
    /\ UNCHANGED <<entry, in_order, len_sentences, para_eventualities, para_relations,
                   nconn, sent_idx, objs, lastOp, aux>>

\* the inputs of the loops, tabulated once
ExtractedFor == [n \in 1..TokLen |-> Extracted(n, MaxExt)]

CandidatesOf == [n \in 0..MaxSent |-> Candidates(n)]

Next ==
    \/ E_Begin
    \/ /\ pc = "clauses"
       /\ \E clause \in Clauses : \E extracted \in ExtractedFor[Len(clause)] :
             E_Clause(clause, extracted)
    \/ E_NextSentence
    \/ E_Return
    \/ R_Begin
    \/ /\ pc = "loop" /\ entry = "R"
       /\ \E c \in CandidatesOf[len_sentences] : R_Connective(c)
    \/ R_Return
    \/ B_Begin
    \/ /\ pc = "loop" /\ entry = "B"
       /\ \E c \in CandidatesOf[len_sentences] :
             \E extracted1 \in (IF c.complete THEN ExtractedFor[Len(c.arg1.indices)] ELSE {<<>>}) :
                \E extracted2 \in (IF c.complete THEN ExtractedFor[Len(c.arg2.indices)] ELSE {<<>>}) :
                   B_Connective(c, extracted1, extracted2)
    \/ B_Return

Spec == Init /\ [][Next]_vars

\* ------------------------------ specification: the engine, larger extractor batches
\* extract_from_parsed_result alone, the eventuality extractor returning up to MaxBatch
\* eventualities for one argument (two of them may be equal: the extractor is external and
\* the engine puts no condition on what it returns).
BatchFor == [n \in 1..TokLen |-> Extracted(n, MaxBatch)]

InitBatch == Init /\ entry = "B"

NextBatch ==
    \/ B_Begin
    \/ /\ pc = "loop" /\ entry = "B"
       /\ \E c \in CandidatesOf[len_sentences] :
             \E extracted1 \in (IF c.complete THEN BatchFor[Len(c.arg1.indices)] ELSE {<<>>}) :
                \E extracted2 \in (IF c.complete THEN BatchFor[Len(c.arg2.indices)] ELSE {<<>>}) :
                   B_Connective(c, extracted1, extracted2)
    \/ B_Return

SpecBatch == InitBatch /\ [][NextBatch]_vars

\* ------------------------------------------- specification: span projection
\* The sub-annotation built for a clause (lines 210-218) or for an argument of a
\* connective (lines 390-414 and 431-455) from a sentence annotation and an index
\* sequence S.  tokens, pos_tags, lemmas and ners are parallel arrays gathered by the same
\* comprehension; the model carries one of them, tokens, whose entry at index i is i.
DepLabels == {"nsubj", "dobj"}

IndexSet(S) == {S[k] : k \in DOMAIN S}

\* {j: i for i, j in enumerate(S)}: a later position overwrites an earlier one
idx_mapping(S) ==
    [j \in IndexSet(S) |->
        (CHOOSE i \in DOMAIN S : S[i] = j /\ \A k \in DOMAIN S : S[k] = j => k <= i) - 1]

ProjectDependencies_noreindex(dependencies, S) ==
    SelectSeq(dependencies, LAMBDA dep : dep[1] \in IndexSet(S) /\ dep[3] \in IndexSet(S))

\* lines 214-215 / 395-396
ProjectDependencies(dependencies, S) ==
    LET m == idx_mapping(S)
        kept == SelectSeq(dependencies,
                          LAMBDA dep : dep[1] \in IndexSet(S) /\ dep[3] \in IndexSet(S))
    IN  [k \in 1..Len(kept) |-> <<m[kept[k][1]], kept[k][2], m[kept[k][3]]>>]

\* lines 216 / 397: [sent["tokens"][idx] for idx in S]; a list index >= len raises
Gather(values, S) ==
    IF \E k \in DOMAIN S : S[k] >= Len(values)
    THEN [err |-> "IndexError", v |-> <<>>]
    ELSE [err |-> NoErr, v |-> [k \in DOMAIN S |-> values[S[k] + 1]]]

\* bisect.bisect_left(a, x, 0, len(a))
RECURSIVE BisectLoop(_, _, _, _)
BisectLoop(a, x, lo, hi) ==
    IF lo < hi
    THEN LET mid == (lo + hi) \div 2
         IN  IF a[mid + 1] < x THEN BisectLoop(a, x, mid + 1, hi) ELSE BisectLoop(a, x, lo, mid)
    ELSE lo

bisect_left(a, x) == BisectLoop(a, x, 0, Len(a))

MentionKept_startonly(S, mention) ==
    LET start_idx == bisect_left(S, mention.start)
    IN  start_idx < Len(S) /\ S[start_idx + 1] = mention.start

\* lines 405-410 / 446-451: both boundaries are found by the sorted search
MentionKept(S, mention) ==
    LET start_idx == bisect_left(S, mention.start)
        end_idx == bisect_left(S, mention.end - 1)
    IN  /\ start_idx < Len(S) /\ S[start_idx + 1] = mention.start
        /\ end_idx < Len(S) /\ S[end_idx + 1] = mention.end - 1

\* the end boundary remapped to the position of the last token, not one past it
RemapMention_inclusive(S, mention) ==
    [mention EXCEPT !.start = bisect_left(S, mention.start),
                    !.end = bisect_left(S, mention.end - 1)]

\* lines 411-413 / 452-454: a copy of the record with the boundaries remapped
RemapMention(S, mention) ==
    [mention EXCEPT !.start = bisect_left(S, mention.start),
                    !.end = bisect_left(S, mention.end - 1) + 1]

\* lines 402-414 / 443-455
ProjectMentions(S, mentions) ==
    LET kept == SelectSeq(mentions, LAMBDA mention : MentionKept(S, mention))
    IN  [k \in 1..Len(kept) |-> RemapMention(S, kept[k])]

\* lines 212-218: the clause's sub-annotation; sent is the sentence annotation after it
ProjectClause(sent, clause) ==
    LET tokens == Gather(sent.tokens, clause)
    IN  IF tokens.err # NoErr
        THEN [err |-> tokens.err, dependencies |-> <<>>, tokens |-> <<>>,
              has_mentions |-> FALSE, mentions |-> <<>>, sent |-> sent]
        ELSE [err |-> NoErr, dependencies |-> ProjectDependencies(sent.dependencies, clause),
              tokens |-> tokens.v, has_mentions |-> FALSE, mentions |-> <<>>, sent |-> sent]

\* lines 390-414 / 431-455: the argument's sub-annotation
ProjectArgument(sent, indices) ==
    LET tokens == Gather(sent.tokens, indices)
    IN  IF tokens.err # NoErr
        THEN [err |-> tokens.err, dependencies |-> <<>>, tokens |-> <<>>,
              has_mentions |-> FALSE, mentions |-> <<>>, sent |-> sent]
        ELSE [err |-> NoErr, dependencies |-> ProjectDependencies(sent.dependencies, indices),
              tokens |-> tokens.v, has_mentions |-> sent.has_mentions,
              mentions |-> IF sent.has_mentions THEN ProjectMentions(indices, sent.mentions)
                           ELSE <<>>,
              sent |-> sent]

\* sentence annotations of n tokens
Triples(n) == (0..(n - 1)) \X DepLabels \X (0..(n - 1))

MentionRecords(n) == {[start |-> a, end |-> b] : a \in 0..(n - 1), b \in 1..n}

SentenceAnnotations ==
    UNION {[tokens : {[i \in 1..n |-> i - 1]},
            dependencies : SeqsUpTo(Triples(n), MaxDeps),
            has_mentions : {TRUE},
            mentions : SeqsUpTo({m \in MentionRecords(n) : m.start < m.end}, MaxMentions)]
           \cup
           [tokens : {[i \in 1..n |-> i - 1]},
            dependencies : SeqsUpTo(Triples(n), MaxDeps),
            has_mentions : {FALSE},
            mentions : {<<>>}] : n \in 1..SentLen}

\* index sequences as a clause or an argument may carry them: any order, repeats and
\* indices past the end of a shorter sentence included
IndexSeqs == SeqsUpTo(0..(SentLen - 1), SentLen)

OtherIdle ==
    /\ pc = "idle" /\ entry = "none" /\ in_order = TRUE /\ len_sentences = 0
    /\ para_eventualities = <<>> /\ para_relations = <<>>
    /\ nconn = 0 /\ sent_idx = 0
    /\ result_ev = <<>> /\ result_rel = <<>> /\ error = NoErr
    /\ objs = [i \in ObjIds |-> Relation(<<1>>, <<2>>, NoneArg)]
    /\ lastOp = NoOp

InitProject ==
    /\ OtherIdle /\ MoreIdle
    /\ call = NoCall /\ mat = NoMatch /\ perm = NoPerm /\ cache = NoCache
    /\ \E op \in {"clause", "argument"}, sent \in SentenceAnnotations, S \in IndexSeqs :
          /\ (op = "clause" => ~sent.has_mentions)
          /\ proj = [op |-> op, pc |-> "input", sent |-> sent, S |-> S,
                     out |-> [err |-> NoErr, dependencies |-> <<>>, tokens |-> <<>>,
                              has_mentions |-> FALSE, mentions |-> <<>>, sent |-> sent],
                     extractor_called |-> FALSE]

\* lines 210-220: the projection of a clause, handed to the eventuality extractor
P_Clause ==
    /\ proj.op = "clause" /\ proj.pc = "input"
    /\ LET out == ProjectClause(proj.sent, proj.S)
       IN  proj' = [proj EXCEPT !.pc = "done", !.out = out,
                                !.extractor_called = (out.err = NoErr)]
    /\ UNCHANGED <<more, engine, objs, lastOp, call, mat, perm, cache>>

\* lines 390-416 / 431-457: the projection of an argument, handed to the extractor
P_Argument ==
    /\ proj.op = "argument" /\ proj.pc = "input"
    /\ LET out == ProjectArgument(proj.sent, proj.S)
       IN  proj' = [proj EXCEPT !.pc = "done", !.out = out,
                                !.extractor_called = (out.err = NoErr)]
    /\ UNCHANGED <<more, engine, objs, lastOp, call, mat, perm, cache>>

NextProject == P_Clause \/ P_Argument

SpecProject == InitProject /\ [][NextProject]_vars

\* ----------------------------------------- specification: entry-point calls
\* The statements of an entry point in the order the source runs them, as a list of
\* steps: the format checks, the check of the paragraph argument, the read of the
\* syntax-tree cache, the calls of the external collaborators, the return.  The *_from_text
\* variants are inherited from BaseASERExtractor and dispatch to the methods of
\* DiscourseASERExtractor3.
EventualityFormats == {"Eventuality", "json"}

RelationFormats == {"Relation", "triple"}

\* keys of a sentence annotation the engine reads (lines 214-218, 550)
SentenceKeys == {"tokens", "pos_tags", "lemmas", "dependencies", "parse"}

CheckFormat(value, allowed) == [kind |-> "check_format", value |-> value, allowed |-> allowed,
                                who |-> "", per_item |-> FALSE]

Step(kind) == [kind |-> kind, value |-> "", allowed |-> {}, who |-> "", per_item |-> FALSE]

Invoke(who, per_item) == [kind |-> "invoke", value |-> "", allowed |-> {}, who |-> who,
                          per_item |-> per_item]

\* lines 374-378 / 278-282: the connective pipeline
Pipeline == <<Invoke("conn_extractor", FALSE), Invoke("argpos_classifier", FALSE),
              Invoke("ss_extractor", FALSE), Invoke("ps_extractor", FALSE),
              Invoke("explicit_classifier", FALSE)>>

\* lines 193-233, without the return
EventualitiesBody(output_format) ==
    <<CheckFormat(output_format, EventualityFormats), Step("check_shape"), Step("cache"),
      Invoke("conn_extractor", FALSE), Invoke("SyntaxTree", TRUE), Invoke("get_clauses", TRUE),
      Invoke("eventuality_extractor", TRUE)>>

\* lines 249-352
RelationsBody(output_format) ==
    <<CheckFormat(output_format, RelationFormats), Step("len"), Step("cache")>>
    \o Pipeline \o <<Invoke("matcher", TRUE), Step("return")>>

\* lines 355-534
BothBody(eventuality_output_format, relation_output_format) ==
    <<CheckFormat(eventuality_output_format, EventualityFormats),
      CheckFormat(relation_output_format, RelationFormats),
      Step("check_shape"), Step("cache")>>
    \o Pipeline \o <<Invoke("eventuality_extractor", TRUE), Step("return")>>

StepsOf_cachefirst(e, ev_format, rel_format) ==
    <<Step("cache")>> \o BothBody(ev_format, rel_format)

StepsOf(e, ev_format, rel_format) ==
    IF e = "E" THEN EventualitiesBody(ev_format) \o <<Step("return")>>
    ELSE IF e = "R" THEN RelationsBody(rel_format)
    ELSE IF e = "B" THEN BothBody(ev_format, rel_format)
    ELSE IF e = "E_text" THEN
        \* lines 57-65
        <<CheckFormat(ev_format, EventualityFormats), Step("parse")>>
        \o EventualitiesBody(ev_format) \o <<Step("return")>>
    ELSE IF e = "R_text" THEN
        \* lines 76-85
        <<CheckFormat(rel_format, RelationFormats), Step("parse")>>
        \o EventualitiesBody("Eventuality") \o RelationsBody(rel_format)
    ELSE
        \* lines 144-154
        <<CheckFormat(ev_format, EventualityFormats), CheckFormat(rel_format, RelationFormats),
          Step("parse")>>
        \o BothBody(ev_format, rel_format)

Collaborators == {"parser", "conn_extractor", "argpos_classifier", "ss_extractor",
                  "ps_extractor", "explicit_classifier", "SyntaxTree", "get_clauses",
                  "eventuality_extractor", "matcher"}

\* the paragraph argument: its Python type and, for a sized type, its len()
Paragraphs ==
    [type : {"list", "tuple", "str"}, len : 0..MaxSent]
    \cup {[type |-> "dict", len |-> Cardinality(SentenceKeys)], [type |-> "int", len |-> 0]}

Texts == [type : {"text"}, len : 0..MaxSent]

CurrentStep == StepsOf(call.entry, call.ev_format, call.rel_format)[call.i]

Running == call.pc = "running"

InitCall ==
    /\ OtherIdle /\ MoreIdle
    /\ proj = NoProj /\ mat = NoMatch /\ perm = NoPerm /\ cache = NoCache
    /\ \E e \in {"E", "R", "B", "E_text", "R_text", "B_text"},
          ev_format \in EventualityFormats \cup {"xml"},
          rel_format \in RelationFormats \cup {"xml"},
          fails \in Collaborators \cup {"none"} :
          /\ (e \in {"E", "E_text"} => rel_format = "Relation")
          /\ (e \in {"R", "R_text"} => ev_format = "Eventuality")
          /\ \E paragraph \in (IF e \in {"E", "R", "B"} THEN Paragraphs ELSE Texts) :
                call = [entry |-> e, ev_format |-> ev_format, rel_format |-> rel_format,
                        paragraph |-> paragraph, fails |-> fails,
                        pc |-> "running", i |-> 1, invoked |-> <<>>,
                        cache_touched |-> FALSE, is_single_sent |-> FALSE,
                        len_sentences |-> -1, error |-> NoErr, returned |-> FALSE]

\* lines 193-194 / 249-250 / 355-358 / 60-61 / 79-80 / 147-150
C_CheckFormat ==
    /\ Running /\ CurrentStep.kind = "check_format"
    /\ call' = IF CurrentStep.value \in CurrentStep.allowed
               THEN [call EXCEPT !.i = @ + 1]
               ELSE [call EXCEPT !.pc = "error", !.error = "NotImplementedError"]
    /\ UNCHANGED <<more, engine, objs, lastOp, proj, mat, perm, cache>>

\* lines 63 / 82 / 152: parse_text returns the list of sentence annotations
C_Parse ==
    /\ Running /\ CurrentStep.kind = "parse"
    /\ call' = IF call.fails = "parser"
               THEN [call EXCEPT !.pc = "error", !.error = "ExternalError",
                                 !.invoked = Append(@, "parser")]
               ELSE [call EXCEPT !.i = @ + 1, !.invoked = Append(@, "parser"),
                                 !.paragraph = [type |-> "list", len |-> @.len]]
    /\ UNCHANGED <<more, engine, objs, lastOp, proj, mat, perm, cache>>

\* lines 196-206 / 360-370
C_CheckShape ==
    /\ Running /\ CurrentStep.kind = "check_shape"
    /\ call' = IF call.paragraph.type \notin {"list", "tuple", "dict"}
               THEN [call EXCEPT !.pc = "error", !.error = "NotImplementedError"]
               ELSE IF call.paragraph.type = "dict"
               THEN [call EXCEPT !.i = @ + 1, !.is_single_sent = TRUE, !.len_sentences = 1]
               ELSE [call EXCEPT !.i = @ + 1, !.is_single_sent = FALSE,
                                 !.len_sentences = call.paragraph.len]
    /\ UNCHANGED <<more, engine, objs, lastOp, proj, mat, perm, cache>>

\* lines 252-257: len() of the argument as it is, and the early return
C_Len ==
    /\ Running /\ CurrentStep.kind = "len"
    /\ call' = IF call.paragraph.type = "int"
               THEN [call EXCEPT !.pc = "error", !.error = "TypeError"]
               ELSE IF call.paragraph.len = 0
               THEN [call EXCEPT !.pc = "done", !.returned = TRUE, !.len_sentences = 0]
               ELSE [call EXCEPT !.i = @ + 1, !.len_sentences = call.paragraph.len]
    /\ UNCHANGED <<more, engine, objs, lastOp, proj, mat, perm, cache>>

\* lines 204 / 259 / 368
C_Cache ==
    /\ Running /\ CurrentStep.kind = "cache"
    /\ call' = [call EXCEPT !.i = @ + 1, !.cache_touched = TRUE]
    /\ UNCHANGED <<more, engine, objs, lastOp, proj, mat, perm, cache>>

C_Invoke_swallow ==
    /\ Running /\ CurrentStep.kind = "invoke"
    /\ CurrentStep.per_item => call.len_sentences > 0
    /\ call' = [call EXCEPT !.i = @ + 1, !.invoked = Append(@, CurrentStep.who)]
    /\ UNCHANGED <<more, engine, objs, lastOp, proj, mat, perm, cache>>

\* a call of an external collaborator (lines 207, 219, 278-282, 299, 374-378, 415, 456):
\* no try statement encloses it, an exception it raises leaves the entry point
C_Invoke ==
    /\ Running /\ CurrentStep.kind = "invoke"
    /\ CurrentStep.per_item => call.len_sentences > 0
    /\ call' = IF call.fails = CurrentStep.who
               THEN [call EXCEPT !.pc = "error", !.error = "ExternalError",
                                 !.invoked = Append(@, CurrentStep.who)]
               ELSE [call EXCEPT !.i = @ + 1, !.invoked = Append(@, CurrentStep.who)]
    /\ UNCHANGED <<more, engine, objs, lastOp, proj, mat, perm, cache>>

\* a loop over sentences, clauses or candidates that has nothing to call the collaborator on
C_SkipLoop ==
    /\ Running /\ CurrentStep.kind = "invoke" /\ CurrentStep.per_item
    /\ call' = [call EXCEPT !.i = @ + 1]
    /\ UNCHANGED <<more, engine, objs, lastOp, proj, mat, perm, cache>>

\* lines 226-246 / 336-352 / 500-534
C_Return ==
    /\ Running /\ CurrentStep.kind = "return"
    /\ call' = [call EXCEPT !.pc = "done", !.returned = TRUE]
    /\ UNCHANGED <<more, engine, objs, lastOp, proj, mat, perm, cache>>

NextCall ==
    \/ C_CheckFormat
    \/ C_Parse
    \/ C_CheckShape
    \/ C_Len
    \/ C_Cache
    \/ C_Invoke
    \/ C_SkipLoop
    \/ C_Return

SpecCall == InitCall /\ [][NextCall]_vars

\* ------------------------------------------ specification: argument matcher
\* One call of the matcher as the engine makes it (lines 299, 304, 321, 325): a
\* sentence annotation, an argument and an eventuality go in, a boolean comes out.
\* The spans are runs of consecutive token indices, the argument's starting at 0 and
\* the eventuality's placed so that the two share a chosen number of tokens.
SpanSizes == {1, 2, 3, 100, MaxSpan}

Overlaps == {0, 1, 2, 3, 98, 99, 100, 988, 989, 990, MaxSpan}

SpanArgument(a) == [indices |-> [i \in 1..a |-> i - 1]]

SpanEventuality(a, b, k) == Eventuality(1, [i \in 1..b |-> (a - k) + i - 1])

InitMatcher ==
    /\ OtherIdle /\ MoreIdle
    /\ proj = NoProj /\ call = NoCall /\ perm = NoPerm /\ cache = NoCache
    /\ \E a \in SpanSizes, b \in SpanSizes, k \in Overlaps :
          /\ k <= Min(a, b)
          /\ mat = [op |-> "match", pc |-> "input",
                    sent_parsed_result |-> [tokens |-> a + b - k],
                    argument |-> SpanArgument(a),
                    eventuality |-> SpanEventuality(a, b, k),
                    result |-> FALSE]

\* lines 299 / 304 / 321 / 325: the call; the matcher reads its arguments only
M_Match ==
    /\ mat.op = "match" /\ mat.pc = "input"
    /\ mat' = [mat EXCEPT !.pc = "done",
                          !.result = match_argument_eventuality_by_Simpson(
                                         mat.argument, mat.eventuality)]
    /\ UNCHANGED <<more, engine, objs, lastOp, proj, call, perm, cache>>

NextMatcher == M_Match

SpecMatcher == InitMatcher /\ [][NextMatcher]_vars

\* ------------------------------- specification: delivery order of the candidates
\* extract_from_parsed_result in merged mode, run as a whole on one list of candidates in
\* the two orders the connective pipeline may deliver it in, and the merge of three
\* relations of one rid in its orders and groupings.  A delivered candidate carries, next
\* to what the loop reads, the key the sort of line 379 reads (its own sentence and first
\* token) and what the eventuality extractor returns for its two arguments.  The
\* arguments are the one-token spans at the head of their sentences: the position of an
\* argument's token reaches the result through raw_sent_mapping only, which neither an
\* eid nor a rid nor a weight reads.  Every candidate carries a sense entry, "None" for a
\* candidate without a classified sense.
Delivered(n) ==
    [c : {c \in CandidatesOf[n] :
             /\ c.complete /\ c.sense # ""
             /\ c.arg1.indices = <<0>> /\ c.arg2.indices = <<0>>},
     sent_idx : 0..(n - 1), first : {0},
     x1 : ExtractedFor[1], x2 : ExtractedFor[1]]

\* the key of line 379 compared as Python compares tuples
KeyLess(a, b) ==
    \/ a.sent_idx < b.sent_idx
    \/ a.sent_idx = b.sent_idx /\ a.first < b.first

\* line 379: list.sort is stable, a candidate goes after those whose key is not greater
RECURSIVE InsertByKey(_, _)
InsertByKey(sorted, x) ==
    IF sorted = <<>> THEN <<x>>
    ELSE IF KeyLess(x, sorted[1]) THEN <<x>> \o sorted
    ELSE <<sorted[1]>> \o InsertByKey(Tail(sorted), x)

RECURSIVE SortByKey(_)
SortByKey(connectives) ==
    IF connectives = <<>> THEN <<>>
    ELSE InsertByKey(SortByKey(SubSeq(connectives, 1, Len(connectives) - 1)),
                     connectives[Len(connectives)])

\* lines 381-498: the loop over the sorted candidates, until one raises
RECURSIVE RunConnectives(_, _, _, _)
RunConnectives(len, evs, rels, connectives) ==
    IF connectives = <<>> THEN [err |-> NoErr, evs |-> evs, rels |-> rels]
    ELSE LET r == ConnectiveStep(len, evs, rels, connectives[1].c,
                                 connectives[1].x1, connectives[1].x2)
         IN  IF r.err # NoErr THEN r
             ELSE RunConnectives(len, r.evs, r.rels, Tail(connectives))

NoResult(err) == [err |-> err, eventualities |-> <<>>, relations |-> <<>>]

\* lines 371-372: [list() for _ in range(n)], built by appending
RECURSIVE EmptyLists(_)
EmptyLists(n) == IF n <= 0 THEN <<>> ELSE Append(EmptyLists(n - 1), <<>>)

\* lines 370-534 with in_order=False: what the call returns, or the exception it raises
MergedRun(len, delivered) ==
    LET r == RunConnectives(len, EmptyLists(len), EmptyLists(2 * len - 1),
                            SortByKey(delivered))
    IN  IF r.err # NoErr THEN NoResult(r.err)
        ELSE LET m == MergeRelations(r.rels, "deepcopy")
             IN  IF m.err # NoErr THEN NoResult(m.err)
                 ELSE [err |-> NoErr, eventualities |-> MergeEventualities(r.evs),
                       relations |-> m.rels]

InitOrder ==
    /\ OtherIdle /\ MoreIdle
    /\ proj = NoProj /\ call = NoCall /\ mat = NoMatch /\ cache = NoCache
    /\ \/ \E n \in 1..OrderSent : \E a \in Delivered(n), b \in Delivered(n) :
             perm = [op |-> "order", pc |-> "input", len_sentences |-> n,
                     delivered |-> <<a, b>>,
                     forward |-> NoResult(NoErr), backward |-> NoResult(NoErr)]
       \/ \E h \in EIDS, t \in EIDS, d1 \in Dicts, d2 \in Dicts, d3 \in Dicts :
             perm = [op |-> "merge", pc |-> "input",
                     r1 |-> Relation(h, t, DictArg(d1)),
                     r2 |-> Relation(h, t, DictArg(d2)),
                     r3 |-> Relation(h, t, DictArg(d3)),
                     merged |-> <<>>]

\* the call on the list as delivered and on the list delivered the other way round
O_Run ==
    /\ perm.op = "order" /\ perm.pc = "input"
    /\ perm' = [perm EXCEPT
                  !.pc = "done",
                  !.forward = MergedRun(perm.len_sentences, perm.delivered),
                  !.backward = MergedRun(perm.len_sentences,
                                         <<perm.delivered[2], perm.delivered[1]>>)]
    /\ UNCHANGED <<more, engine, objs, lastOp, proj, call, mat, cache>>

\* relation.py lines 38-44: r1, r2, r3 merged as (r1+r2)+r3, r1+(r2+r3), (r2+r1)+r3
\* and (r3+r2)+r1
O_Merge ==
    /\ perm.op = "merge" /\ perm.pc = "input"
    /\ LET U(a, b) == update_relations(a, RelArg(b))
       IN  perm' = [perm EXCEPT
                      !.pc = "done",
                      !.merged = <<U(U(perm.r1, perm.r2), perm.r3),
                                   U(perm.r1, U(perm.r2, perm.r3)),
                                   U(U(perm.r2, perm.r1), perm.r3),
                                   U(U(perm.r3, perm.r2), perm.r1)>>]
    /\ UNCHANGED <<more, engine, objs, lastOp, proj, call, mat, cache>>

NextOrder == O_Run \/ O_Merge

SpecOrder == InitOrder /\ [][NextOrder]_vars

\* ------------------------------------------ specification: syntax-tree cache
\* Calls of extract_eventualities_from_parsed_result on one extractor as far as the
\* syntax-tree cache goes: the caller passes no cache, the dict it passed to the call
\* before, or a new empty dict; the connective extractor and then the loop of
\* _extract_clauses read and fill the dict in use.  A tree is the SyntaxTree object of
\* one sentence of one paragraph, told apart by the serial number of its construction.
CachedParagraphs == [id : 1..MaxParas, len : 1..CacheSent]

NoParagraph == [id |-> 0, len |-> 0]

EmptyCache == [k \in {} |-> NoParagraph]

Supplies == {"none", "same", "new"}

SyntaxTree(para, sent, serial) == [para |-> para, sent |-> sent, serial |-> serial]

\* the sentence's tree built anew whether or not the cache holds one
CachedTree_rebuilt(syntax_tree_cache, idx, built) == built

\* lines 547-550: the cached tree of the sentence if there is one, else the tree built
\* for it
CachedTree(syntax_tree_cache, idx, built) ==
    IF idx \in DOMAIN syntax_tree_cache THEN syntax_tree_cache[idx] ELSE built

\* line 550: syntax_tree_cache[sent_idx] = syntax_tree
StoreTree(syntax_tree_cache, idx, tree) ==
    [k \in DOMAIN syntax_tree_cache \cup {idx} |->
        IF k = idx THEN tree ELSE syntax_tree_cache[k]]

InitCache ==
    /\ OtherIdle /\ MoreIdle
    /\ proj = NoProj /\ call = NoCall /\ mat = NoMatch /\ perm = NoPerm
    /\ cache = [pc |-> "idle", para |-> NoParagraph, supply |-> "none",
                dict |-> EmptyCache, caller |-> EmptyCache, sent_idx |-> 0,
                constructed |-> 0, before |-> EmptyCache, start |-> 0, seen |-> {},
                history |-> <<>>]

\* line 204: the dict of the keyword argument, or a new dict() when there is none; the
\* caller either keeps the dict of its last call or makes a new one
K_Call(para, supply) ==
    /\ cache.pc = "idle" /\ Len(cache.history) < MaxCalls
    /\ LET d == IF supply = "same" THEN cache.caller ELSE EmptyCache
       IN  cache' = [cache EXCEPT !.pc = "connectives", !.para = para, !.supply = supply,
                                  !.dict = d, !.before = d,
                                  !.caller = IF supply = "new" THEN EmptyCache ELSE @,
                                  !.sent_idx = 0, !.start = cache.constructed,
                                  !.seen = {}]
    /\ UNCHANGED <<more, engine, objs, lastOp, proj, call, mat, perm>>

\* line 538: the connective extractor is handed the cache and builds and stores the
\* trees of some of the sentences that have none (fill)
K_Connectives(fill) ==
    /\ cache.pc = "connectives"
    /\ fill \subseteq (0..(cache.para.len - 1)) \ DOMAIN cache.dict
    /\ cache' = [cache EXCEPT
          !.pc = "clauses",
          !.dict = [k \in DOMAIN cache.dict \cup fill |->
                      IF k \in fill
                      THEN SyntaxTree(cache.para, k,
                              cache.constructed + Cardinality({j \in fill : j <= k}))
                      ELSE cache.dict[k]],
          !.constructed = @ + Cardinality(fill)]
    /\ UNCHANGED <<more, engine, objs, lastOp, proj, call, mat, perm>>

\* lines 543-550: the tree of sentence sent_idx
K_Sentence ==
    /\ cache.pc = "clauses" /\ cache.sent_idx < cache.para.len
    /\ LET built == SyntaxTree(cache.para, cache.sent_idx, cache.constructed + 1)
           syntax_tree == CachedTree(cache.dict, cache.sent_idx, built)
       IN  cache' = [cache EXCEPT
              !.dict = StoreTree(@, cache.sent_idx, syntax_tree),
              !.constructed = IF syntax_tree = built THEN @ + 1 ELSE @,
              !.seen = @ \cup {syntax_tree},
              !.sent_idx = @ + 1]
    /\ UNCHANGED <<more, engine, objs, lastOp, proj, call, mat, perm>>

\* line 557 and the return of the caller: a dict the caller passed stays with the caller,
\* the dict made at line 204 is dropped
K_Return ==
    /\ cache.pc = "clauses" /\ cache.sent_idx = cache.para.len
    /\ cache' = [cache EXCEPT
          !.pc = "idle",
          !.caller = IF cache.supply = "none" THEN @ ELSE cache.dict,
          !.dict = EmptyCache,
          !.history = Append(@, [para |-> cache.para, supply |-> cache.supply,
                                 before |-> cache.before, after |-> cache.dict,
                                 start |-> cache.start,
                                 built |-> cache.constructed - cache.start,
                                 seen |-> cache.seen])]
    /\ UNCHANGED <<more, engine, objs, lastOp, proj, call, mat, perm>>

NextCache ==
    \/ \E para \in CachedParagraphs, supply \in Supplies : K_Call(para, supply)
    \/ \E fill \in SUBSET (0..(CacheSent - 1)) : K_Connectives(fill)
    \/ K_Sentence
    \/ K_Return

SpecCache == InitCache /\ [][NextCache]_vars

\* --------------------------------------- specification: output formats
\* One call of extract_from_parsed_result on a paragraph with one connective candidate,
\* for every mode and every pair of supported formats.  An item of a returned collection
\* carries its form: an Eventuality or a Relation instance, an encoded record ("json"),
\* or the triples of a relation.
AsInstance(form, x) == [form |-> form, v |-> x]

\* Eventuality.encode(encoding=None): the record of the eventuality
encode(eventuality) == [form |-> "json", v |-> eventuality]

\* Relation.to_triples: one (heid, sense, teid) per sense of the relation
to_triples(relation) ==
    [form |-> "triple",
     v |-> {<<relation.heid, r, relation.teid>> : r \in DOMAIN relation.relations}]

FormatEventualities(eventuality_output_format, eventualities) ==
    [k \in DOMAIN eventualities |->
        IF eventuality_output_format = "json" THEN encode(eventualities[k])
        ELSE AsInstance("Eventuality", eventualities[k])]

\* lines 500-510: the in-order return; the list built at lines 505-506 is bound to the
\* name relations, and para_relations is what line 510 returns
ReturnInOrder(eventuality_output_format, relation_output_format, evs, rels) ==
    IF /\ relation_output_format = "triple"
       /\ Flatten(rels) # <<>>
       /\ "to_triple" \notin RelationMethods
    THEN NoResult("AttributeError")
    ELSE [err |-> NoErr,
          eventualities |-> [i \in DOMAIN evs |->
                                FormatEventualities(eventuality_output_format, evs[i])],
          relations |-> [b \in DOMAIN rels |->
                            [k \in DOMAIN rels[b] |-> AsInstance("Relation", rels[b][k])]]]

\* lines 511-534: the merged return
ReturnMerged(eventuality_output_format, relation_output_format, evs, rels) ==
    LET m == MergeRelations(rels, "deepcopy")
        eventualities == FormatEventualities(eventuality_output_format,
                                             MergeEventualities(evs))
    IN  IF m.err # NoErr THEN NoResult(m.err)
        ELSE IF relation_output_format = "Relation"
        THEN [err |-> NoErr, eventualities |-> eventualities,
              relations |-> [k \in DOMAIN m.rels |-> AsInstance("Relation", m.rels[k])]]
        ELSE IF m.rels # <<>> /\ "to_triples" \notin RelationMethods
        THEN NoResult("AttributeError")
        ELSE [err |-> NoErr, eventualities |-> eventualities,
              relations |-> [k \in DOMAIN m.rels |-> to_triples(m.rels[k])]]

\* lines 370-534: the call as a whole
FormattedRun(len, delivered, in_order_, eventuality_output_format, relation_output_format) ==
    LET r == RunConnectives(len, EmptyLists(len), EmptyLists(2 * len - 1),
                            SortByKey(delivered))
    IN  IF r.err # NoErr THEN NoResult(r.err)
        ELSE IF in_order_
        THEN ReturnInOrder(eventuality_output_format, relation_output_format, r.evs, r.rels)
        ELSE ReturnMerged(eventuality_output_format, relation_output_format, r.evs, r.rels)

InitFormat ==
    /\ OtherIdle
    /\ proj = NoProj /\ call = NoCall /\ mat = NoMatch /\ perm = NoPerm /\ cache = NoCache
    /\ heap = NoHeap /\ srv = NoSrv /\ wrk = NoWrk
    /\ \E n \in 1..FormatSent : \E a \in Delivered(n) :
       \E o \in BOOLEAN, ef \in EventualityFormats, rf \in RelationFormats :
          fmt = [pc |-> "input", len_sentences |-> n, delivered |-> <<a>>, in_order |-> o,
                 eventuality_output_format |-> ef, relation_output_format |-> rf,
                 out |-> NoResult(NoErr)]

F_InOrder ==
    /\ fmt.pc = "input" /\ fmt.in_order
    /\ fmt' = [fmt EXCEPT !.pc = "done",
                          !.out = FormattedRun(fmt.len_sentences, fmt.delivered, TRUE,
                                               fmt.eventuality_output_format,
                                               fmt.relation_output_format)]
    /\ UNCHANGED <<engine, objs, lastOp, proj, call, mat, perm, cache, heap, srv, wrk>>

F_Merged ==
    /\ fmt.pc = "input" /\ ~fmt.in_order
    /\ fmt' = [fmt EXCEPT !.pc = "done",
                          !.out = FormattedRun(fmt.len_sentences, fmt.delivered, FALSE,
                                               fmt.eventuality_output_format,
                                               fmt.relation_output_format)]
    /\ UNCHANGED <<engine, objs, lastOp, proj, call, mat, perm, cache, heap, srv, wrk>>

NextFormat == F_InOrder \/ F_Merged

SpecFormat == InitFormat /\ [][NextFormat]_vars

\* ------------------------------------- specification: Relation instances
\* Relation instances as Python holds them: an instance's attributes refer to objects,
\* and its relations attribute refers to a dict that update_relations changes in place.
\* heap.rels[i] is the attribute dict (__dict__) of instance i, its relations entry the
\* number of a dict in heap.dicts; heap.returned is the instance whose attribute dict the
\* last to_dict call handed to the caller (0: none).
ValueOf(h, i) ==
    [heid |-> h.rels[i].heid, teid |-> h.rels[i].teid, rid |-> h.rels[i].rid,
     relations |-> h.dicts[h.rels[i].relations]]

ValuesOf(h) == [i \in DOMAIN h.rels |-> ValueOf(h, i)]

InitInstances ==
    /\ OtherIdle
    /\ proj = NoProj /\ call = NoCall /\ mat = NoMatch /\ perm = NoPerm /\ cache = NoCache
    /\ fmt = NoFmt /\ srv = NoSrv /\ wrk = NoWrk
    /\ \E h \in EIDS, t \in EIDS, l \in SenseLists :
          LET r == Relation(h, t, ListArg(l))
          IN  heap = [pc |-> "run",
                      rels |-> <<[heid |-> r.heid, teid |-> r.teid, rid |-> r.rid,
                                  relations |-> 1]>>,
                      dicts |-> <<r.relations>>,
                      returned |-> 0,
                      last |-> [op |-> "__init__", self |-> 1],
                      before |-> <<>>]

\* relation.py lines 46-47: to_dict returns self.__dict__, the attribute dict itself
H_ToDict(i) ==
    /\ heap.pc = "run" /\ i \in DOMAIN heap.rels
    /\ heap' = [heap EXCEPT !.returned = i, !.last = [op |-> "to_dict", self |-> i],
                            !.before = ValuesOf(heap)]
    /\ UNCHANGED <<engine, objs, lastOp, proj, call, mat, perm, cache, fmt, srv, wrk>>

\* relation.py lines 12-17 and 49-52: Relation().from_dict(heap.rels[i].to_dict()); the
\* new instance gets a dict of its own at line 16 and then every attribute, relations
\* included, is set to the object the entry of d refers to
H_FromDict(i) ==
    /\ heap.pc = "run" /\ i \in DOMAIN heap.rels /\ Len(heap.rels) < MaxInstances
    /\ heap' = [heap EXCEPT
          !.dicts = Append(@, EmptyDict),
          !.rels = Append(@, heap.rels[i]),
          !.last = [op |-> "from_dict", self |-> Len(heap.rels) + 1],
          !.before = ValuesOf(heap)]
    /\ UNCHANGED <<engine, objs, lastOp, proj, call, mat, perm, cache, fmt, srv, wrk>>

\* relation.py lines 24-37: update_relations with a list of senses, in place on the dict
\* the instance refers to
H_Update(i, l) ==
    /\ heap.pc = "run" /\ i \in DOMAIN heap.rels
    /\ LET updated == update_relations(ValueOf(heap, i), ListArg(l))
       IN  /\ MaxW(updated) <= MaxWeight
           /\ heap' = [heap EXCEPT
                 !.dicts = [@ EXCEPT ![heap.rels[i].relations] = updated.relations],
                 !.last = [op |-> "update_relations", self |-> i],
                 !.before = ValuesOf(heap)]
    /\ UNCHANGED <<engine, objs, lastOp, proj, call, mat, perm, cache, fmt, srv, wrk>>

\* the caller assigns d["heid"] = h on the dict a to_dict call returned
H_SetItem(h) ==
    /\ heap.pc = "run" /\ heap.returned # 0
    /\ heap' = [heap EXCEPT
          !.rels = [@ EXCEPT ![heap.returned] = [@ EXCEPT !.heid = h]],
          !.last = [op |-> "setitem", self |-> heap.returned],
          !.before = ValuesOf(heap)]
    /\ UNCHANGED <<engine, objs, lastOp, proj, call, mat, perm, cache, fmt, srv, wrk>>

NextInstances ==
    \/ \E i \in 1..MaxInstances : H_ToDict(i)
    \/ \E i \in 1..MaxInstances : H_FromDict(i)
    \/ \E i \in 1..MaxInstances, l \in SenseLists : H_Update(i, l)
    \/ \E h \in EIDS : H_SetItem(h)

SpecInstances == InitInstances /\ [][NextInstances]_vars

\* ------------------------------------------ specification: the request router
\* server/__init__.py lines 107-110: the commands ASERServer._run sends to the workers
WorkerCmds ==
    {"parse_text", "extract_eventualities", "extract_relations",
     "extract_eventualities_and_relations", "conceptualize_eventuality"}

\* server/__init__.py lines 190-201: the commands ASERDataBase._run has a branch for
DbCmds ==
    {"exact_match_eventuality", "exact_match_eventuality_relation",
     "fetch_related_eventualities", "exact_match_concept",
     "exact_match_concept_relation", "fetch_related_concepts"}

\* a command no process has a branch for
OtherCmds == {"unknown"}

ClientIds == {"c1", "c2"}

ReqIds == {"r1"}

DataFrames == {"t1"}

\* line 106: a client message is the four frames client_id, req_id, cmd, data
ClientMsgs ==
    [client_id : ClientIds, req_id : ReqIds,
     cmd : WorkerCmds \cup DbCmds \cup OtherCmds, data : DataFrames]

NoMsg == [client_id |-> "", req_id |-> "", cmd |-> "", data |-> ""]

\* lines 112-113 and 117-118: the senders random.choice draws from, every back socket
\* but the one used last
Choices(n, sender_id) == {i \in 0..(n - 1) : i # sender_id}

\* lines 99-102: the state ASERServer._run enters its loop with; sent is the set of
\* sends of the last iteration
InitServer ==
    /\ OtherIdle
    /\ proj = NoProj /\ call = NoCall /\ mat = NoMatch /\ perm = NoPerm /\ cache = NoCache
    /\ fmt = NoFmt /\ heap = NoHeap /\ wrk = NoWrk
    /\ \E n \in 1..MaxSocks :
          srv = [pc |-> "run", n_concurrent_back_socks |-> n,
                 worker_sender_id |-> -1, db_sender_id |-> -1, cnt |-> 0,
                 client_msg |-> NoMsg, sent |-> {}, raised |-> ""]

\* lines 104-124: one iteration of the loop of ASERServer._run on client_msg.  The
\* results are the states the iteration can end in: one for each sender random.choice
\* can return, or, when the list it is given is empty, the state after the IndexError
\* it raises was caught at line 123 (nothing sent, cnt and the sender ids as before).
Forwarded(s, client_msg) ==
    LET toWorker == client_msg.cmd \in WorkerCmds
        senders == IF toWorker
                   THEN Choices(s.n_concurrent_back_socks, s.worker_sender_id)
                   ELSE Choices(s.n_concurrent_back_socks, s.db_sender_id)
    IN  IF senders = {}
        THEN {[s EXCEPT !.client_msg = client_msg, !.sent = {}, !.raised = "IndexError"]}
        ELSE {[s EXCEPT
                 !.worker_sender_id = IF toWorker THEN i ELSE @,
                 !.db_sender_id = IF toWorker THEN @ ELSE i,
                 !.cnt = @ + 1,
                 !.client_msg = client_msg,
                 !.sent = {[socket |-> IF toWorker THEN "worker" ELSE "db",
                            id |-> i, msg |-> client_msg]},
                 !.raised = ""] : i \in senders}

S_Loop(client_msg) ==
    /\ srv.pc = "run" /\ srv.cnt < MaxCnt
    /\ srv' \in Forwarded(srv, client_msg)
    /\ UNCHANGED <<engine, objs, lastOp, proj, call, mat, perm, cache, fmt, heap, wrk>>

NextServer == \E client_msg \in ClientMsgs : S_Loop(client_msg)

SpecServer == InitServer /\ [][NextServer]_vars

\* ------------------------------------------------- specification: one worker
\* The data frames a worker is sent: two texts the extractor handles, a text it raises
\* on, and a frame that is not UTF-8.
WorkerData == {"t1", "t2", "bad", "raw"}

\* lines 347-352: bytes.decode("utf-8") of the data frame succeeds
Decodes(data) == data # "raw"

\* lines 379, 393, 413, 463: the extractor (or the conceptualizer) raises on the text
ExtractorRaises(cmd, data) == data = "bad"

\* lines 380, 400, 430, 465: the bytes json.dumps(...).encode("utf-8") gives for the
\* result of the call a command makes on a text
Response(cmd, data) == [error |-> FALSE, cmd |-> cmd, of |-> data]

\* line 368: json.dumps(ASERError + e.__repr__()).encode("utf-8")
ErrorResponse(e) == [error |-> TRUE, cmd |-> "", of |-> e]

\* lines 293-469: the methods class ASERWorker defines
WorkerMethods ==
    {"__init__", "run", "close", "_run", "handle_parse_text",
     "handle_extract_eventualities", "handle_extract_relations",
     "handle_extract_eventualities_and_relations", "handle_conceptualize_eventuality"}

\* line 318: worker_cache is an OrderedDict, here the sequence of its items in
\* insertion order
EmptyWorkerCache == <<>>

HasKey(worker_cache, key) == \E i \in DOMAIN worker_cache : worker_cache[i].key = key

GetItem(worker_cache, key) ==
    worker_cache[CHOOSE i \in DOMAIN worker_cache : worker_cache[i].key = key].value

\* lines 375, 390, 410, 459: the key is the tuple of the command and the text (for
\* conceptualize_eventuality the eid of the decoded eventuality)
CacheKey_text_only(cmd, data) == <<"", data>>

CacheKey(cmd, data) == <<cmd, data>>

\* lines 381-383 (and 401-403, 431-433, 466-468): popitem(last=False) drops the first
\* item of a cache holding CACHESIZE items or more, then the new item is set; the key is
\* not in the cache here, so the item goes to the end
SetItem_unbounded(worker_cache, key, ret_data) ==
    Append(worker_cache, [key |-> key, value |-> ret_data])

SetItem(worker_cache, key, ret_data) ==
    LET popped == IF Len(worker_cache) >= CACHESIZE THEN Tail(worker_cache)
                  ELSE worker_cache
    IN  Append(popped, [key |-> key, value |-> ret_data])

\* lines 373-384, the shape the handlers share: return the cached bytes on a hit;
\* otherwise call the extractor, which may raise, and cache the bytes of its result
Handled(cmd, data, worker_cache) ==
    LET key == CacheKey(cmd, data)
    IN  IF HasKey(worker_cache, key)
        THEN [raised |-> "", ret_data |-> GetItem(worker_cache, key),
              worker_cache |-> worker_cache, invoked |-> FALSE]
        ELSE IF ExtractorRaises(cmd, data)
        THEN [raised |-> "Exception", ret_data |-> ErrorResponse("Exception"),
              worker_cache |-> worker_cache, invoked |-> TRUE]
        ELSE [raised |-> "", ret_data |-> Response(cmd, data),
              worker_cache |-> SetItem(worker_cache, key, Response(cmd, data)),
              invoked |-> TRUE]

handle_parse_text(data, worker_cache) == Handled("parse_text", data, worker_cache)

\* lines 386-404: data.decode gives a str, so the text branch is the one taken
handle_extract_eventualities(data, worker_cache) ==
    Handled("extract_eventualities", data, worker_cache)

\* lines 406-434: likewise the text branch
handle_extract_relations(data, worker_cache) ==
    Handled("extract_relations", data, worker_cache)

handle_extract_eventualities_and_relations(data, worker_cache) ==
    Handled("extract_eventualities_and_relations", data, worker_cache)

handle_conceptualize_eventuality(data, worker_cache) ==
    Handled("conceptualize_eventuality", data, worker_cache)

HandlerRaises(e, worker_cache) ==
    [raised |-> e, ret_data |-> ErrorResponse(e), worker_cache |-> worker_cache,
     invoked |-> FALSE]

\* lines 353-368: the dispatch on cmd; line 361 calls
\* self.extract_eventualities_and_relations, and an attribute the class does not
\* define raises AttributeError
Dispatch(cmd, data, worker_cache) ==
    CASE cmd = "parse_text" -> handle_parse_text(data, worker_cache)
      [] cmd = "extract_eventualities" -> handle_extract_eventualities(data, worker_cache)
      [] cmd = "extract_relations" -> handle_extract_relations(data, worker_cache)
      [] cmd = "extract_eventualities_and_relations" ->
            IF "extract_eventualities_and_relations" \in WorkerMethods
            THEN handle_extract_eventualities_and_relations(data, worker_cache)
            ELSE HandlerRaises("AttributeError", worker_cache)
      [] cmd = "conceptualize_eventuality" ->
            handle_conceptualize_eventuality(data, worker_cache)
      [] OTHER -> HandlerRaises("ValueError", worker_cache)

WorkerMsgs ==
    [client_id : ClientIds, req_id : ReqIds, cmd : WorkerCmds \cup OtherCmds,
     data : WorkerData]

\* lines 331-340: the state ASERWorker._run enters its loop with
InitWorker ==
    /\ OtherIdle
    /\ proj = NoProj /\ call = NoCall /\ mat = NoMatch /\ perm = NoPerm /\ cache = NoCache
    /\ fmt = NoFmt /\ heap = NoHeap /\ srv = NoSrv
    /\ wrk = [pc |-> "run", worker_cache |-> EmptyWorkerCache, msg |-> NoMsg,
              before |-> EmptyWorkerCache, sink |-> <<>>, invoked |-> FALSE,
              raised |-> ""]

\* lines 343-371: the worker receives msg from a socket and serves it.  The print at
\* lines 348-352 decodes the frames outside the inner try: a data frame that is not
\* UTF-8 raises UnicodeDecodeError, caught at line 370 with nothing sent.  Otherwise the
\* command is dispatched, an exception of the handler becomes the error payload (lines
\* 366-368), and one message goes to the sink (line 369).  sink holds the messages the
\* iteration sent.
W_Loop(msg) ==
    /\ wrk.pc = "run"
    /\ IF ~Decodes(msg.data)
       THEN wrk' = [wrk EXCEPT !.msg = msg, !.before = wrk.worker_cache, !.sink = <<>>,
                               !.invoked = FALSE, !.raised = "UnicodeDecodeError"]
       ELSE LET h == Dispatch(msg.cmd, msg.data, wrk.worker_cache)
            IN  wrk' = [wrk EXCEPT
                   !.msg = msg, !.before = wrk.worker_cache,
                   !.worker_cache = h.worker_cache,
                   !.sink = <<[client_id |-> msg.client_id, req_id |-> msg.req_id,
                               cmd |-> msg.cmd, data |-> h.ret_data]>>,
                   !.invoked = h.invoked, !.raised = h.raised]
    /\ UNCHANGED <<engine, objs, lastOp, proj, call, mat, perm, cache, fmt, heap, srv>>

NextWorker == \E msg \in WorkerMsgs : W_Loop(msg)

SpecWorker == InitWorker /\ [][NextWorker]_vars

\* ================================================================ properties
SeqToSet(q) == {q[i] : i \in DOMAIN q}

RidsOf(rels) == {rels[i].rid : i \in DOMAIN rels}

RECURSIVE SumWeight(_, _, _)
SumWeight(rels, rid, sense) ==
    IF rels = <<>> THEN 0
    ELSE (IF rels[1].rid = rid THEN Weight(rels[1].relations, sense) ELSE 0)
         + SumWeight(Tail(rels), rid, sense)

RECURSIVE SumFrequency(_, _)
SumFrequency(evs, eid) ==
    IF evs = <<>> THEN 0
    ELSE (IF evs[1].eid = eid THEN evs[1].frequency ELSE 0) + SumFrequency(Tail(evs), eid)

RECURSIVE Occurrences(_, _)
Occurrences(l, x) ==
    IF l = <<>> THEN 0 ELSE (IF l[1] = x THEN 1 ELSE 0) + Occurrences(Tail(l), x)

\* the step that leaves the connective loop: the return, or the raise, of the call
LeavesLoop == pc = "loop" /\ pc' \in {"done", "error"} /\ nconn' = nconn

\* C1: in merged mode, for a paragraph with at least one relation in its buckets,
\* extract_relations_from_parsed_result and extract_from_parsed_result return a sequence
\* in which every rid of the buckets occurs exactly once, in ascending rid order.
C1_MergedRelationsSortedOnce ==
    [][(LeavesLoop /\ entry \in {"R", "B"} /\ ~in_order /\ Flatten(para_relations) # <<>>)
        => /\ pc' = "done"
           /\ \A i, j \in DOMAIN result_rel' : i < j => result_rel'[i].rid < result_rel'[j].rid
           /\ RidsOf(result_rel') = RidsOf(Flatten(para_relations))]_vars

\* C2: the merged relation of extract_from_parsed_result carries, for every rid and sense,
\* the sum of that sense's weights over all relations of that rid in all buckets, and
\* producing it leaves the buckets unmodified.
C2_MergedWeightIsSumOverBuckets ==
    [][(LeavesLoop /\ entry = "B" /\ ~in_order)
        => /\ pc' = "done"
           /\ para_relations' = para_relations
           /\ RidsOf(result_rel') = RidsOf(Flatten(para_relations))
           /\ \A i \in DOMAIN result_rel' : \A sense \in relation_senses :
                 Weight(result_rel'[i].relations, sense)
                   = SumWeight(Flatten(para_relations), result_rel'[i].rid, sense)]_vars

\* C3: a merged eventuality result holds one entry per distinct eid of the per-sentence
\* lists, in ascending eid order; each entry is the first-seen eventuality of its eid with
\* the evidence of all eventualities of that eid summed; the lists are left unmodified.
FirstWithEid(evs, eid) == evs[CHOOSE k \in DOMAIN evs :
                                /\ evs[k].eid = eid
                                /\ \A j \in DOMAIN evs : evs[j].eid = eid => k <= j]

C3_MergedEventualitiesOncePerEid ==
    [][(pc \in {"loop", "clauses"} /\ pc' = "done" /\ entry \in {"E", "B"} /\ ~in_order)
        => LET flat == Flatten(para_eventualities)
               res == result_ev'
           IN  /\ \A i, j \in DOMAIN res : i < j => LexLess(res[i].eid, res[j].eid)
               /\ {res[i].eid : i \in DOMAIN res} = {flat[k].eid : k \in DOMAIN flat}
               /\ \A i \in DOMAIN res :
                     res[i] = [FirstWithEid(flat, res[i].eid) EXCEPT
                                  !.frequency = SumFrequency(flat, res[i].eid)]
               /\ para_eventualities' = para_eventualities]_vars

C3_Witness ==
    /\ pc = "done" /\ entry \in {"E", "B"} /\ ~in_order
    /\ \E i \in DOMAIN result_ev : result_ev[i].frequency >= 2

\* C4: a.update_relations(x) adds weights: for a Relation x with the same (heid, teid)
\* and for a dict x every sense gets a_before + x (a missing sense counting 0) and the
\* keys are the union; a list adds 1.0 per occurrence of a label; x is left unchanged.
C4_UpdateRelationsIsAdditive ==
    [][\A a \in ObjIds :
         (lastOp'.op = "update_relations" /\ lastOp'.self = a)
         => /\ lastOp'.kind = "Relation"
                 => LET b == lastOp'.arg
                    IN  /\ objs'[b] = objs[b]
                        /\ (objs[a].heid = objs[b].heid /\ objs[a].teid = objs[b].teid)
                             => /\ \A sense \in relation_senses :
                                     Weight(objs'[a].relations, sense)
                                       = Weight(objs[a].relations, sense)
                                         + Weight(objs[b].relations, sense)
                                /\ DOMAIN objs'[a].relations
                                     = DOMAIN objs[a].relations \cup DOMAIN objs[b].relations
            /\ lastOp'.kind = "dict"
                 => /\ \A sense \in relation_senses :
                         Weight(objs'[a].relations, sense)
                           = Weight(objs[a].relations, sense) + Weight(lastOp'.arg, sense)
                    /\ DOMAIN objs'[a].relations
                         = DOMAIN objs[a].relations \cup DOMAIN lastOp'.arg
            /\ lastOp'.kind = "list"
                 => /\ \A sense \in relation_senses :
                         Weight(objs'[a].relations, sense)
                           = Weight(objs[a].relations, sense) + Occurrences(lastOp'.arg, sense)
                    /\ DOMAIN objs'[a].relations
                         = DOMAIN objs[a].relations \cup SeqToSet(lastOp'.arg)
            /\ objs'[a].heid = objs[a].heid /\ objs'[a].teid = objs[a].teid]_vars

C4_Witness ==
    /\ lastOp.op = "update_relations" /\ lastOp.kind = "Relation"
    /\ objs[1].heid = objs[2].heid /\ objs[1].teid = objs[2].teid
    /\ \E sense \in relation_senses :
          /\ sense \in DOMAIN objs[lastOp.arg].relations
          /\ Weight(objs[lastOp.self].relations, sense)
               > Weight(objs[lastOp.arg].relations, sense)

\* the relations of new that are not, at the same place, in old: <<bucket, heid, teid>>
Changed(old, new) ==
    UNION {{<<b, new[b][k].heid, new[b][k].teid>> :
               k \in {j \in DOMAIN new[b] : j > Len(old[b]) \/ old[b][j] # new[b][j]}} :
           b \in DOMAIN new}

AtLoop(e) == pc = "loop" /\ entry = e /\ nconn < MaxConn

ExtractedOf(arg) == ExtractedFor[Len(arg.indices)]

\* C5: relations are directional: generate_rid(A,B) # generate_rid(B,A) for distinct eids,
\* and a connective creates or updates only relations whose head comes from an eventuality
\* of arg1 and whose tail comes from one of arg2 (the head before the tail when both are
\* in one sentence's list); the reverse relation is never touched as a side effect.
C5_RelationsAreDirectional ==
    /\ \A a, b \in EIDS : a # b => generate_rid(a, b) # generate_rid(b, a)
    /\ AtLoop("R") =>
         \A c \in CandidatesOf[len_sentences] : c.complete =>
            LET r == RelationsStep(len_sentences, para_eventualities, para_relations, c)
                evs1 == para_eventualities[c.arg1.sent_idx + 1]
                evs2 == para_eventualities[c.arg2.sent_idx + 1]
            IN  \A x \in Changed(para_relations, r.rels) :
                   \E p \in DOMAIN evs1, q \in DOMAIN evs2 :
                      /\ evs1[p].eid = x[2] /\ evs2[q].eid = x[3]
                      /\ match_argument_eventuality_by_Simpson(c.arg1, evs1[p])
                      /\ match_argument_eventuality_by_Simpson(c.arg2, evs2[q])
                      /\ c.arg1.sent_idx = c.arg2.sent_idx => p < q
    /\ AtLoop("B") =>
         \A c \in CandidatesOf[len_sentences] : c.complete =>
            \A x1 \in ExtractedOf(c.arg1), x2 \in ExtractedOf(c.arg2) :
               LET r == ConnectiveStep(len_sentences, para_eventualities, para_relations,
                                       c, x1, x2)
               IN  \A x \in Changed(para_relations, r.rels) :
                      /\ \E k \in DOMAIN x1 : generate_eid(x1[k]) = x[2]
                      /\ \E k \in DOMAIN x2 : generate_eid(x2[k]) = x[3]

C5_Witness ==
    /\ pc = "loop" /\ nconn >= 1
    /\ \E b \in DOMAIN para_relations : \E k \in DOMAIN para_relations[b] :
          /\ para_relations[b][k].heid # para_relations[b][k].teid
          /\ "Reason" \in DOMAIN para_relations[b][k].relations
          /\ \A j \in DOMAIN para_relations[b] :
                ~(/\ para_relations[b][j].heid = para_relations[b][k].teid
                  /\ para_relations[b][j].teid = para_relations[b][k].heid)

\* C6: in extract_relations_from_parsed_result, before any connective is processed, the
\* bucket of a sentence with k eventualities holds exactly k*(k-1)/2 relations, one per
\* position pair p < q from the eid at p to the eid at q, each with exactly
\* {Co_Occurrence: 1.0}; the inter-sentence buckets are empty.
C6_CoOccurrenceBaseline ==
    (entry = "R" /\ pc = "loop" /\ nconn = 0) =>
       /\ \A i \in 1..len_sentences :
             LET evs == para_eventualities[i]
                 k == Len(evs)
                 bucket == para_relations[i]
             IN  /\ 2 * Len(bucket) = k * (k - 1)
                 /\ \A j \in DOMAIN bucket : bucket[j].relations = ("Co_Occurrence" :> 1)
                 /\ \A h, t \in EIDS :
                       Cardinality({j \in DOMAIN bucket :
                                       bucket[j].heid = h /\ bucket[j].teid = t})
                         = Cardinality({pq \in (1..k) \X (1..k) :
                                           /\ pq[1] < pq[2]
                                           /\ evs[pq[1]].eid = h /\ evs[pq[2]].eid = t})
       /\ \A i \in (len_sentences + 1)..(2 * len_sentences - 1) : para_relations[i] = <<>>

C6_Witness ==
    /\ entry = "R" /\ pc = "loop" /\ nconn = 0
    /\ \E i \in 1..len_sentences :
          Len(para_eventualities[i]) = 3 /\ Len(para_relations[i]) = 3

\* C7: no relation is created for sentences that are neither equal nor adjacent: a
\* candidate whose argument sentences are neither equal nor arg1_idx + 1 == arg2_idx
\* leaves every relation bucket unchanged, in both entry points.
C7_NonAdjacentCandidateDiscarded ==
    pc = "loop" =>
       \A c \in CandidatesOf[len_sentences] :
          (/\ c.complete
           /\ c.arg1.sent_idx # c.arg2.sent_idx
           /\ c.arg1.sent_idx + 1 # c.arg2.sent_idx)
          => /\ entry = "R" =>
                  RelationsStep(len_sentences, para_eventualities, para_relations, c).rels
                    = para_relations
             /\ entry = "B" =>
                  \A x1 \in ExtractedOf(c.arg1), x2 \in ExtractedOf(c.arg2) :
                     ConnectiveStep(len_sentences, para_eventualities, para_relations,
                                    c, x1, x2).rels = para_relations

\* C8: for a paragraph of N >= 1 sentences the working collections have N per-sentence
\* lists and 2N-1 buckets throughout the processing of the connectives, and so have the
\* collections returned in in-order mode.
C8_InOrderShapes ==
    len_sentences >= 1 =>
       /\ (pc \in {"loop", "error"} /\ entry \in {"R", "B"})
             => Len(para_relations) = 2 * len_sentences - 1
       /\ (pc \in {"loop", "clauses", "error"}) => Len(para_eventualities) = len_sentences
       /\ (pc = "done" /\ in_order) =>
             /\ entry \in {"E", "B"} => Len(result_ev) = len_sentences
             /\ entry \in {"R", "B"} => Len(result_rel) = 2 * len_sentences - 1

C8_Witness ==
    /\ pc = "done" /\ in_order /\ entry = "B" /\ len_sentences >= 2 /\ nconn >= 1
    /\ Flatten(result_rel) # <<>>

\* C9: for a zero-sentence paragraph every entry point completes without error and the
\* in-order results are a single empty bucket of eventualities and a single empty
\* (intra-sentence) bucket of relations, the same in all three entry points.
C9_ZeroSentenceShapes ==
    (len_sentences = 0 /\ in_order /\ pc \in {"done", "error"}) =>
       /\ pc = "done"
       /\ entry \in {"E", "B"} => result_ev = << <<>> >>
       /\ entry \in {"R", "B"} => result_rel = << <<>> >>

\* C10: a connective with arg1 in sentence i, arg2 in sentence i+1 and a classified sense
\* s, whose arguments match e1 of sentence i and e3 of sentence i+1, produces a relation
\* (e1,e3) in bucket N+i without a Co_Occurrence weight (exactly {s: 1.0} when the pair had
\* no relation before and matches once), and changes no intra-sentence bucket.
ProducesAdjacent(c, heid, teid, once, r) ==
    LET b == len_sentences + c.arg1.sent_idx + 1
        fresh == \A j \in DOMAIN para_relations[b] :
                    ~(para_relations[b][j].heid = heid /\ para_relations[b][j].teid = teid)
    IN  /\ r.err = NoErr
        /\ \E j \in DOMAIN r.rels[b] :
              /\ r.rels[b][j].heid = heid /\ r.rels[b][j].teid = teid
              /\ "Co_Occurrence" \notin DOMAIN r.rels[b][j].relations
              /\ Weight(r.rels[b][j].relations, c.sense) >= 1
              /\ (fresh /\ once) => r.rels[b][j].relations = (c.sense :> 1)
        /\ \A i \in 1..len_sentences : r.rels[i] = para_relations[i]

C10_AdjacentConnectiveProducesRelation ==
    \A c \in CandidatesOf[len_sentences] :
       (c.complete /\ c.arg1.sent_idx + 1 = c.arg2.sent_idx /\ HasSense(c.sense)) =>
          /\ AtLoop("R") =>
               LET evs1 == para_eventualities[c.arg1.sent_idx + 1]
                   evs2 == para_eventualities[c.arg2.sent_idx + 1]
                   M == {pq \in (DOMAIN evs1) \X (DOMAIN evs2) :
                           /\ match_argument_eventuality_by_Simpson(c.arg1, evs1[pq[1]])
                           /\ match_argument_eventuality_by_Simpson(c.arg2, evs2[pq[2]])}
               IN  \A pq \in M :
                      ProducesAdjacent(c, evs1[pq[1]].eid, evs2[pq[2]].eid, Cardinality(M) = 1,
                         RelationsStep(len_sentences, para_eventualities, para_relations, c))
          /\ AtLoop("B") =>
               \A x1 \in ExtractedOf(c.arg1), x2 \in ExtractedOf(c.arg2) :
                  \A k1 \in DOMAIN x1, k2 \in DOMAIN x2 :
                     ProducesAdjacent(c, generate_eid(x1[k1]), generate_eid(x2[k2]),
                        Len(x1) = 1 /\ Len(x2) = 1,
                        ConnectiveStep(len_sentences, para_eventualities, para_relations,
                                       c, x1, x2))

\* C11: every relation in a bucket, and every relation of a returned result (in-order or
\* merged), has at least one sense, each with a positive weight; a connective without an
\* explicit sense (missing or "None") whose arguments are in different sentences creates
\* no relation.
HasPositiveSense(relation) ==
    /\ DOMAIN relation.relations # {}
    /\ \A sense \in DOMAIN relation.relations : relation.relations[sense] > 0

C11_EveryRelationHasASense ==
    /\ \A b \in DOMAIN para_relations : \A k \in DOMAIN para_relations[b] :
          HasPositiveSense(para_relations[b][k])
    /\ pc = "done" =>
          LET returned == IF in_order THEN Flatten(result_rel) ELSE result_rel
          IN  \A k \in DOMAIN returned : HasPositiveSense(returned[k])
    /\ pc = "loop" =>
          \A c \in CandidatesOf[len_sentences] :
             (c.complete /\ c.sense \in {"", "None"} /\ c.arg1.sent_idx # c.arg2.sent_idx)
             => /\ entry = "R" =>
                     RelationsStep(len_sentences, para_eventualities, para_relations, c).rels
                       = para_relations
                /\ entry = "B" =>
                     \A x1 \in ExtractedOf(c.arg1), x2 \in ExtractedOf(c.arg2) :
                        ConnectiveStep(len_sentences, para_eventualities, para_relations,
                                       c, x1, x2).rels = para_relations

\* extract_from_parsed_result has processed one candidate that put an eventuality in each
\* of two sentences and no relation anywhere: its arguments were in different sentences
\* and it created no relation
C11_Witness ==
    /\ entry = "B" /\ pc = "done" /\ in_order /\ nconn = 1 /\ len_sentences = 2
    /\ para_eventualities[1] # <<>> /\ para_eventualities[2] # <<>>
    /\ Flatten(result_rel) = <<>>

\* position of index x in the duplicate-free sequence S, counted from 0
Pos(S, x) == (CHOOSE k \in DOMAIN S : S[k] = x) - 1

ProjectionDone == proj.op \in {"clause", "argument"} /\ proj.pc = "done"

ValidSpan(S, sent) == \A k \in DOMAIN S : S[k] < Len(sent.tokens)

\* C12: for a duplicate-free sequence S of valid token indices, the projected dependencies
\* of a clause and of an argument are exactly the triples (pos(g), label, pos(d)) of the
\* original triples (g, label, d) with g and d in S; mapping the endpoints back through
\* S recovers an original triple, and no original triple with both endpoints in S is lost.
C12_DependencyProjectionRoundTrip ==
    (ProjectionDone /\ IsDupFree(proj.S) /\ ValidSpan(proj.S, proj.sent)) =>
       LET S == proj.S
           original == SeqToSet(proj.sent.dependencies)
           projected == SeqToSet(proj.out.dependencies)
           inside == {dep \in original : dep[1] \in IndexSet(S) /\ dep[3] \in IndexSet(S)}
       IN  /\ proj.out.err = NoErr
           /\ projected = {<<Pos(S, dep[1]), dep[2], Pos(S, dep[3])>> : dep \in inside}
           /\ \A t \in projected :
                 /\ t[1] \in 0..(Len(S) - 1) /\ t[3] \in 0..(Len(S) - 1)
                 /\ <<S[t[1] + 1], t[2], S[t[3] + 1]>> \in inside
           /\ \A dep \in inside :
                 \E t \in projected : <<S[t[1] + 1], t[2], S[t[3] + 1]>> = dep

C12_Witness ==
    /\ ProjectionDone /\ proj.S = <<2, 0>>
    /\ Len(proj.sent.dependencies) = 2 /\ Len(proj.out.dependencies) = 1
    /\ proj.out.dependencies[1][1] = 0 /\ proj.out.dependencies[1][3] = 1

\* the mentions the claim expects for S: those with start and end-1 in S, in the order of
\* the sentence, with start' = pos(start) and end' = pos(end-1) + 1
ExpectedMentions(S, mentions) ==
    LET kept == SelectSeq(mentions, LAMBDA mention :
                    mention.start \in IndexSet(S) /\ (mention.end - 1) \in IndexSet(S))
    IN  [k \in 1..Len(kept) |->
            [kept[k] EXCEPT !.start = Pos(S, kept[k].start),
                            !.end = Pos(S, kept[k].end - 1) + 1]]

MentionsProjected ==
    ProjectionDone /\ proj.op = "argument" /\ proj.sent.has_mentions
    /\ IsDupFree(proj.S) /\ ValidSpan(proj.S, proj.sent)

IsAscending(S) == \A i, j \in DOMAIN S : i < j => S[i] < S[j]

\* C13 as stated: for a duplicate-free sequence S of valid indices in whatever order, a
\* mention is in the projection iff start and end-1 are both in S, with start' = pos(start)
\* and end' = pos(end-1) + 1, and the sentence's mention records are not modified.
C13_MentionsKeptIffBoundariesInSpan ==
    MentionsProjected =>
       /\ proj.out.mentions = ExpectedMentions(proj.S, proj.sent.mentions)
       /\ proj.out.sent = proj.sent

\* C13 amended: the same for a duplicate-free sequence S of valid indices in ascending
\* order, the order the sorted search of lines 405-410 relies on.
C13_MentionsKeptIffBoundariesInAscendingSpan ==
    (MentionsProjected /\ IsAscending(proj.S)) =>
       /\ proj.out.mentions = ExpectedMentions(proj.S, proj.sent.mentions)
       /\ proj.out.sent = proj.sent

C13_Witness ==
    /\ MentionsProjected /\ proj.S = <<1, 2>>
    /\ proj.sent.mentions = <<[start |-> 1, end |-> 3]>>
    /\ proj.out.mentions = <<[start |-> 0, end |-> 2]>>

\* C14: a projection of an index sequence with an index >= the sentence length or with a
\* repeated index fails, and the eventuality extractor is not invoked on it.
C14_InvalidSpanFails ==
    (ProjectionDone /\ (~ValidSpan(proj.S, proj.sent) \/ ~IsDupFree(proj.S))) =>
       /\ proj.out.err # NoErr
       /\ ~proj.extractor_called

\* the format check an entry point applies to the formats it takes
Unsupported ==
    \/ call.entry \in {"E", "E_text", "B", "B_text"} /\ call.ev_format \notin {"Eventuality", "json"}
    \/ call.entry \in {"R", "R_text", "B", "B_text"} /\ call.rel_format \notin {"Relation", "triple"}

Finished == call.pc \in {"done", "error"}

\* C15: an entry point called with an unsupported eventuality or relation format reports
\* the unsupported-format error, and has by then invoked neither the parser, an extractor
\* nor the connective pipeline, nor touched the syntax-tree cache.
C15_UnsupportedFormatRejectedFirst ==
    Unsupported =>
       /\ call.invoked = <<>>
       /\ ~call.cache_touched
       /\ ~call.returned
       /\ call.i <= 2
       /\ Finished => (call.pc = "error" /\ call.error = "NotImplementedError")

C15_Witness ==
    /\ call.entry = "B_text" /\ call.ev_format = "json" /\ call.rel_format = "xml"
    /\ call.pc = "error" /\ call.error = "NotImplementedError"

\* C16: each of the three *_from_parsed_result entry points fails, returning nothing, when
\* the paragraph is neither a list/tuple nor a dict, and treats a dict as a one-sentence
\* paragraph.
C16_MalformedParagraphRejected ==
    (call.entry \in {"E", "R", "B"} /\ ~Unsupported) =>
       /\ (call.paragraph.type \notin {"list", "tuple", "dict"} /\ Finished)
             => (call.pc = "error" /\ ~call.returned)
       /\ (call.paragraph.type = "dict" /\ call.len_sentences # -1)
             => call.len_sentences = 1

\* C17: when an external collaborator raises, the call fails with that error and returns
\* nothing: the engine catches nothing.
C17_ExternalFailurePropagates ==
    (\E k \in DOMAIN call.invoked : call.invoked[k] = call.fails) =>
       /\ call.pc = "error" /\ call.error = "ExternalError"
       /\ ~call.returned
       /\ call.invoked[Len(call.invoked)] = call.fails

C17_Witness ==
    /\ call.entry = "B" /\ call.fails = "eventuality_extractor"
    /\ call.pc = "error" /\ call.error = "ExternalError"
    /\ Len(call.invoked) = 6


\* C18: with threshold 0.99 the matcher returns true for an argument covering the index
\* set A and an eventuality covering the index set B exactly when
\* 100 * |A & B| >= 99 * min(|A|, |B|), so 99 shared tokens of 100 match and 989 of 1000
\* do not; the call leaves the argument, the eventuality and the sentence as they were.
C18_MatcherThreshold ==
    [][(mat.op = "match" /\ mat.pc = "input" /\ mat'.pc = "done") =>
         LET A == {mat.argument.indices[k] : k \in DOMAIN mat.argument.indices}
             B == {mat.eventuality.raw_sent_mapping[k] :
                      k \in DOMAIN mat.eventuality.raw_sent_mapping}
             n == IF Cardinality(A) <= Cardinality(B) THEN Cardinality(A)
                  ELSE Cardinality(B)
         IN  /\ mat'.result <=> (100 * Cardinality(A \cap B) >= 99 * n)
             /\ mat'.argument = mat.argument
             /\ mat'.eventuality = mat.eventuality
             /\ mat'.sent_parsed_result = mat.sent_parsed_result]_vars

\* C18 witness: an argument of 100 tokens sharing 99 of them with a longer eventuality
\* has been matched.
C18_Witness ==
    /\ mat.op = "match" /\ mat.pc = "done"
    /\ Len(mat.argument.indices) = 100
    /\ Cardinality(DOMAIN mat.eventuality.raw_sent_mapping) = 1000
    /\ Cardinality({mat.argument.indices[k] : k \in DOMAIN mat.argument.indices}
                    \cap MappingValues(mat.eventuality)) = 99
    /\ mat.result = TRUE

\* C18 second witness: 989 shared tokens of 1000 have been refused.
C18_WitnessBelow ==
    /\ mat.op = "match" /\ mat.pc = "done"
    /\ Len(mat.argument.indices) = 1000
    /\ Cardinality({mat.argument.indices[k] : k \in DOMAIN mat.argument.indices}
                    \cap MappingValues(mat.eventuality)) = 989
    /\ mat.result = FALSE


\* C19: for a relation r reached by construction and any updates,
\* Relation().from_dict(r.to_dict()) has the heid, the teid, the rid and the
\* sense-to-weight mapping of r.
C19_SerializationRoundTrip ==
    lastOp.op = "from_dict" =>
        /\ lastOp.arg.heid = objs[lastOp.self].heid
        /\ lastOp.arg.teid = objs[lastOp.self].teid
        /\ lastOp.arg.rid = objs[lastOp.self].rid
        /\ lastOp.arg.relations = objs[lastOp.self].relations

\* C19 witness: a relation with two senses, one of them accumulated to weight 2, has
\* been encoded and decoded.
C19_Witness ==
    /\ lastOp.op = "from_dict"
    /\ DOMAIN objs[lastOp.self].relations = relation_senses
    /\ objs[lastOp.self].relations["Reason"] = 2
    /\ lastOp.arg.relations = objs[lastOp.self].relations
    /\ lastOp.arg.heid # EmptyStr

\* C20: no update_relations call, whatever its argument, changes heid or teid; rid is
\* generate_rid(heid, teid) at all times; and two relations have the same rid exactly
\* when they have the same (heid, teid), whatever their weights.
C20_RidIsStableIdentity ==
    [][/\ \A i \in ObjIds :
             /\ objs'[i].heid = objs[i].heid
             /\ objs'[i].teid = objs[i].teid
             /\ objs[i].rid = Sha1(objs[i].heid \o <<Dollar>> \o objs[i].teid)
             /\ objs'[i].rid = Sha1(objs'[i].heid \o <<Dollar>> \o objs'[i].teid)
       /\ \A i \in ObjIds, j \in ObjIds :
             /\ (objs[i].rid = objs[j].rid)
                  <=> (objs[i].heid = objs[j].heid /\ objs[i].teid = objs[j].teid)
             /\ (objs'[i].rid = objs'[j].rid)
                  <=> (objs'[i].heid = objs'[j].heid /\ objs'[i].teid = objs'[j].teid)]_vars

\* C20 witness: after an update, two relations of the same head and tail carry different
\* weights and the same rid.
C20_Witness ==
    /\ lastOp.op = "update_relations"
    /\ objs[1].heid = objs[2].heid /\ objs[1].teid = objs[2].teid
    /\ objs[1].relations # objs[2].relations
    /\ objs[1].rid = objs[2].rid
    /\ objs[1].rid = generate_rid(objs[1].heid, objs[1].teid)


\* C21: in extract_from_parsed_result, after any number of connective candidates, no
\* sentence's working eventuality list holds two entries with the same
\* (eid, raw_sent_mapping), entries of one batch and of arg1 / arg2 of one sentence included.
C21_WorkingListsAreDuplicateFree ==
    (entry = "B" /\ pc \in {"loop", "done", "error"}) =>
        \A s \in DOMAIN para_eventualities :
            \A i, j \in DOMAIN para_eventualities[s] :
                (i # j) =>
                    ~(/\ para_eventualities[s][i].eid = para_eventualities[s][j].eid
                      /\ para_eventualities[s][i].raw_sent_mapping
                            = para_eventualities[s][j].raw_sent_mapping)


\* the (head, tail) eid pairs of the matching eventuality pairs of a candidate, in the
\* order the loops visit them
PairsOfB(x1, x2) ==
    LET ps == PairsInOrder(Len(x1), Len(x2), LAMBDA p, q : TRUE)
    IN  [k \in 1..Len(ps) |-> <<generate_eid(x1[ps[k][1]]), generate_eid(x2[ps[k][2]])>>]

PairsOfR(c) ==
    IF c.arg1.sent_idx = c.arg2.sent_idx
    THEN SameSentencePairs(para_eventualities[c.arg1.sent_idx + 1], c.arg1, c.arg2)
    ELSE CrossSentencePairs(para_eventualities[c.arg1.sent_idx + 1],
                            para_eventualities[c.arg2.sent_idx + 1], c.arg1, c.arg2)

TimesIn(pairs, h, t) == Cardinality({k \in DOMAIN pairs : pairs[k] = <<h, t>>})

Admissible(c) ==
    /\ c.complete
    /\ (c.arg1.sent_idx = c.arg2.sent_idx \/ c.arg1.sent_idx + 1 = c.arg2.sent_idx)

BucketOf(c) ==
    IF c.arg1.sent_idx = c.arg2.sent_idx THEN c.arg1.sent_idx + 1
    ELSE c.arg1.sent_idx + len_sentences + 1

\* C22: in extract_from_parsed_result the senses applied for an admissible candidate are
\* Co_Occurrence iff both arguments are in one sentence, plus the classified sense iff it
\* is present and not "None"; with no sense to apply no bucket changes, and otherwise the
\* weight of each applied sense on each affected (head, tail) grows by exactly 1 per
\* matching eventuality pair (and no other weight changes).
C22_AppliedSenses ==
    AtLoop("B") =>
       \A c \in CandidatesOf[len_sentences] : Admissible(c) =>
          \A x1 \in ExtractedOf(c.arg1), x2 \in ExtractedOf(c.arg2) :
             LET r == ConnectiveStep(len_sentences, para_eventualities, para_relations,
                                     c, x1, x2)
                 applied == (IF c.arg1.sent_idx = c.arg2.sent_idx THEN {"Co_Occurrence"}
                             ELSE {})
                            \cup (IF c.sense \in {"", "None"} THEN {} ELSE {c.sense})
                 b == BucketOf(c)
                 pairs == PairsOfB(x1, x2)
             IN  IF applied = {} THEN r.err = NoErr /\ r.rels = para_relations
                 ELSE /\ r.err = NoErr
                      /\ \A h \in EIDS, t \in EIDS, sense \in relation_senses :
                            SumWeight(r.rels[b], generate_rid(h, t), sense)
                              = SumWeight(para_relations[b], generate_rid(h, t), sense)
                                + (IF sense \in applied THEN TimesIn(pairs, h, t) ELSE 0)

\* old and new are a bucket before and after a candidate whose matched pairs are pairs and
\* whose senses are senses: a (head, tail) already in the bucket keeps its relations, the
\* weights of the senses growing by the number of its matched pairs; one that is not gets
\* exactly one relation, carrying the senses; every other relation is as before
MergedOrAppended(old, new, pairs, senses) ==
    \A h \in EIDS, t \in EIDS :
       LET n == TimesIn(pairs, h, t)
           was == {j \in DOMAIN old : old[j].heid = h /\ old[j].teid = t}
           now == {j \in DOMAIN new : new[j].heid = h /\ new[j].teid = t}
       IN  IF n = 0 THEN now = was /\ \A j \in was : new[j] = old[j]
           ELSE IF was # {} THEN
               /\ now = was
               /\ \A sense \in relation_senses :
                     SumWeight(new, generate_rid(h, t), sense)
                       = SumWeight(old, generate_rid(h, t), sense)
                         + (IF sense \in senses THEN n ELSE 0)
           ELSE /\ Cardinality(now) = 1
                /\ \A j \in now : new[j].relations = [sense \in senses |-> n]

SuppliesSense(r, b, pairs, senses) ==
    /\ r.err = NoErr
    /\ Len(r.rels) = Len(para_relations)
    /\ \A i \in DOMAIN para_relations : i # b => r.rels[i] = para_relations[i]
    /\ MergedOrAppended(para_relations[b], r.rels[b], pairs, senses)

\* C23: when a connective supplies a sense for a matched pair (h, t), the engine
\* completes without error; a relation (h, t) already in the bucket has the sense's weight
\* grown additively, the bucket keeping its length and the other senses their weights;
\* otherwise exactly one relation (h, t) carrying the sense is appended; no other relation
\* of any bucket changes.
C23_SenseMergedOrRelationCreated ==
    /\ AtLoop("R") =>
         \A c \in CandidatesOf[len_sentences] :
            (/\ c.complete /\ HasSense(c.sense)
             /\ c.arg1.sent_idx + len_sentences < 2 * len_sentences - 1
             /\ PairsOfR(c) # <<>>) =>
               SuppliesSense(RelationsStep(len_sentences, para_eventualities,
                                           para_relations, c),
                             BucketOf(c), PairsOfR(c), {c.sense})
    /\ AtLoop("B") =>
         \A c \in CandidatesOf[len_sentences] : (Admissible(c) /\ HasSense(c.sense)) =>
            \A x1 \in ExtractedOf(c.arg1), x2 \in ExtractedOf(c.arg2) :
               PairsOfB(x1, x2) # <<>> =>
                  SuppliesSense(ConnectiveStep(len_sentences, para_eventualities,
                                               para_relations, c, x1, x2),
                                BucketOf(c), PairsOfB(x1, x2),
                                (IF c.arg1.sent_idx = c.arg2.sent_idx
                                 THEN {"Co_Occurrence"} ELSE {}) \cup {c.sense})


\* C24: after a paragraph has been processed in in-order mode no bucket holds two
\* relations with the same (head eid, tail eid), also when a sentence's eventuality list
\* holds several entries with one eid.
C24_NoDuplicateRelationInBucket ==
    (pc = "done" /\ in_order /\ entry \in {"R", "B"}) =>
        \A b \in DOMAIN result_rel :
            \A i, j \in DOMAIN result_rel[b] :
                (i # j) => ~(/\ result_rel[b][i].heid = result_rel[b][j].heid
                             /\ result_rel[b][i].teid = result_rel[b][j].teid)


\* C25: while the candidates are processed one after another, in both relation entry
\* points, no bucket shrinks, every relation of a bucket stays at its place with its head
\* and tail, and no weight of any sense, of a relation or accumulated over the bucket for
\* a (head, tail), decreases from one step to the next.
C25_WeightsNeverDecrease ==
    [][(pc = "loop" /\ entry \in {"R", "B"}) =>
         /\ Len(para_relations') = Len(para_relations)
         /\ \A b \in DOMAIN para_relations :
               /\ Len(para_relations'[b]) >= Len(para_relations[b])
               /\ \A j \in DOMAIN para_relations[b] :
                     /\ para_relations'[b][j].heid = para_relations[b][j].heid
                     /\ para_relations'[b][j].teid = para_relations[b][j].teid
                     /\ \A sense \in relation_senses :
                           Weight(para_relations'[b][j].relations, sense)
                             >= Weight(para_relations[b][j].relations, sense)
               /\ \A rid \in RidsOf(para_relations[b]), sense \in relation_senses :
                     SumWeight(para_relations'[b], rid, sense)
                       >= SumWeight(para_relations[b], rid, sense)]_vars

\* C25 witness: two candidates have been processed and each has left a relation with the
\* sense Reason in a bucket of its own.
C25_Witness ==
    /\ pc = "loop" /\ nconn = 2
    /\ \E b1, b2 \in DOMAIN para_relations :
          /\ b1 # b2
          /\ \E j \in DOMAIN para_relations[b1] :
                "Reason" \in DOMAIN para_relations[b1][j].relations
          /\ \E j \in DOMAIN para_relations[b2] :
                "Reason" \in DOMAIN para_relations[b2][j].relations


EidsOf(sent_eventualities) == {sent_eventualities[k].eid : k \in DOMAIN sent_eventualities}

\* C26: in both relation entry points, after any sequence of candidates, a relation of
\* the intra-sentence bucket i has its head and its tail among the eids of sentence i's
\* list, and a relation of the inter-sentence bucket N+i has its head among the eids of
\* sentence i's list and its tail among those of sentence i+1's list.
C26_BucketsHoldTheirSentences ==
    (entry \in {"R", "B"} /\ pc \in {"loop", "done", "error"} /\ para_relations # <<>>) =>
        /\ \A i \in 1..len_sentences : \A k \in DOMAIN para_relations[i] :
              /\ para_relations[i][k].heid \in EidsOf(para_eventualities[i])
              /\ para_relations[i][k].teid \in EidsOf(para_eventualities[i])
        /\ \A i \in 1..(len_sentences - 1) :
              \A k \in DOMAIN para_relations[len_sentences + i] :
                 /\ para_relations[len_sentences + i][k].heid
                       \in EidsOf(para_eventualities[i])
                 /\ para_relations[len_sentences + i][k].teid
                       \in EidsOf(para_eventualities[i + 1])


\* C27: the merged result of extract_from_parsed_result does not depend on the order in
\* which the candidates are delivered: both orders raise the same exception or return
\* relations with the same rids and weights and eventualities with the same eids; and
\* merging relations of one rid gives the same weights in every order and grouping.
C27_MergedResultIsOrderIndependent ==
    perm.pc = "done" =>
       /\ perm.op = "order" =>
             /\ perm.forward.err = perm.backward.err
             /\ [k \in DOMAIN perm.forward.relations |->
                    <<perm.forward.relations[k].rid, perm.forward.relations[k].relations>>]
                = [k \in DOMAIN perm.backward.relations |->
                    <<perm.backward.relations[k].rid, perm.backward.relations[k].relations>>]
             /\ [k \in DOMAIN perm.forward.eventualities |->
                    perm.forward.eventualities[k].eid]
                = [k \in DOMAIN perm.backward.eventualities |->
                    perm.backward.eventualities[k].eid]
       /\ perm.op = "merge" =>
             \A i, j \in DOMAIN perm.merged :
                /\ perm.merged[i].relations = perm.merged[j].relations
                /\ perm.merged[i].rid = perm.merged[j].rid

\* C27 witness: two different candidates with the same sort key, which are therefore
\* processed in the order of their delivery, have given two relations in both orders.
C27_Witness ==
    /\ perm.op = "order" /\ perm.pc = "done"
    /\ perm.delivered[1].sent_idx = perm.delivered[2].sent_idx
    /\ perm.delivered[1].c # perm.delivered[2].c
    /\ perm.forward.err = NoErr /\ perm.backward.err = NoErr
    /\ Len(perm.forward.relations) = 2 /\ Len(perm.backward.relations) = 2
    /\ Len(perm.forward.eventualities) = 2


Members(indices) == {indices[i] : i \in DOMAIN indices}

\* the mapping m is the mapping local, which the extractor returned for a projection
\* with index list indices, translated to the indices of the sentence
IsTranslated(m, local, indices) ==
    /\ DOMAIN m = DOMAIN local
    /\ \A k \in DOMAIN m :
          /\ m[k] = indices[local[k] + 1]
          /\ m[k] \in Members(indices)
          /\ m[k] \in Tokens

\* C28: whatever the extractor returns for a clause (Pipeline A) or for an argument span
\* (Pipeline B) with index list C, after the translation every raw_sent_mapping value is
\* C[v] for the local position v returned, a member of C and an index of the sentence,
\* under the same keys; in Pipeline A the sentence's list is the old list followed by all
\* the clause's eventualities, none dropped; in Pipeline B every returned eventuality is
\* in its sentence's list with the translated mapping.
C28_MappingsAreTranslated ==
    /\ (entry = "E" /\ pc = "clauses" /\ sent_idx < len_sentences) =>
          \A clause \in Clauses : \A extracted \in ExtractedFor[Len(clause)] :
             LET old == para_eventualities[sent_idx + 1]
                 new == ClauseStep(old, clause, extracted)
             IN  /\ Len(new) = Len(old) + Len(extracted)
                 /\ \A k \in DOMAIN old : new[k] = old[k]
                 /\ \A k \in DOMAIN extracted :
                       /\ new[Len(old) + k].eid = extracted[k].eid
                       /\ IsTranslated(new[Len(old) + k].raw_sent_mapping,
                                       extracted[k].raw_sent_mapping, clause)
    /\ AtLoop("B") =>
          \A c \in {x \in Candidates(len_sentences) : x.complete} :
             \A x1 \in ExtractedFor[Len(c.arg1.indices)] :
                \A x2 \in ExtractedFor[Len(c.arg2.indices)] :
                   LET r == ConnectiveStep(len_sentences, para_eventualities,
                                           para_relations, c, x1, x2)
                       l1 == r.evs[c.arg1.sent_idx + 1]
                       l2 == r.evs[c.arg2.sent_idx + 1]
                   IN  /\ \A k \in DOMAIN x1 : \E i \in DOMAIN l1 :
                             /\ l1[i].eid = x1[k].eid
                             /\ IsTranslated(l1[i].raw_sent_mapping,
                                             x1[k].raw_sent_mapping, c.arg1.indices)
                       /\ \A k \in DOMAIN x2 : \E i \in DOMAIN l2 :
                             /\ l2[i].eid = x2[k].eid
                             /\ IsTranslated(l2[i].raw_sent_mapping,
                                             x2[k].raw_sent_mapping, c.arg2.indices)

\* C28 witness: Pipeline A has extended the list of a sentence by two eventualities of
\* one eid, one of them at token 1 of the sentence, and more clauses may follow.
C28_Witness ==
    /\ entry = "E" /\ pc = "clauses" /\ sent_idx < len_sentences
    /\ LET l == para_eventualities[sent_idx + 1]
       IN  \E i, j \in DOMAIN l :
              /\ i < j
              /\ l[i].eid = l[j].eid
              /\ l[i].raw_sent_mapping # l[j].raw_sent_mapping
              /\ l[j].raw_sent_mapping[1] = 1


\* C29: a call with a cache of the caller leaves an entry for every sentence of the
\* paragraph in it and every entry it found in it as it was; a call with the cache of the
\* call before, on the same paragraph, builds no tree; a call without a cache starts
\* from an empty one and reads only trees of its own paragraph built during the call.
C29_CacheIsFilledAndKept ==
    \A i \in DOMAIN cache.history :
       LET h == cache.history[i]
       IN  /\ h.supply # "none" =>
                 /\ (0..(h.para.len - 1)) \subseteq DOMAIN h.after
                 /\ \A k \in DOMAIN h.before :
                       k \in DOMAIN h.after /\ h.after[k] = h.before[k]
           /\ (/\ i > 1
               /\ h.supply = "same"
               /\ cache.history[i - 1].supply # "none"
               /\ cache.history[i - 1].para = h.para) => h.built = 0
           /\ h.supply = "none" =>
                 /\ h.before = EmptyCache
                 /\ \A t \in h.seen : t.para = h.para /\ t.serial > h.start

\* C29 witness: a paragraph of two sentences was segmented twice with one cache of the
\* caller, the first call built trees and the second built none, and a call without a
\* cache went before on another paragraph.
C29_Witness ==
    /\ cache.pc = "idle" /\ Len(cache.history) = 3
    /\ cache.history[1].supply = "none" /\ cache.history[1].para # cache.history[2].para
    /\ cache.history[2].supply = "new" /\ cache.history[2].built > 0
    /\ cache.history[3].supply = "same" /\ cache.history[3].para = cache.history[2].para
    /\ cache.history[3].para.len = 2
    /\ cache.history[3].built = 0


\* the mentions of the sentence that the projection keeps, in the order of the sentence
KeptMentions == SelectSeq(proj.sent.mentions, LAMBDA mention : MentionKept(proj.S, mention))

\* the tokens of the sentence that the projected span [start', end') stands for
MappedBack(S, projected) == {S[i + 1] : i \in projected.start..(projected.end - 1)}

\* C30 as stated: for any duplicate-free S, ascending or not and whether or not it omits
\* tokens inside the mention, the projected span of a kept mention mapped back through S
\* is exactly the mention's tokens start..end-1, and start' < end'.
C30_KeptMentionCoversAllItsTokens ==
    MentionsProjected =>
       \A k \in DOMAIN proj.out.mentions :
          /\ proj.out.mentions[k].start < proj.out.mentions[k].end
          /\ MappedBack(proj.S, proj.out.mentions[k])
                = KeptMentions[k].start..(KeptMentions[k].end - 1)

\* C30 amended: for any duplicate-free S a kept mention has start' < end'; for an ascending
\* S its projected span mapped back through S is exactly the tokens of the mention that
\* are in S, the first and the last token of the mention among them, hence all of the
\* mention when S omits no token inside it.
C30_KeptMentionCoversItsTokensInSpan ==
    MentionsProjected =>
       \A k \in DOMAIN proj.out.mentions :
          LET mention == KeptMentions[k]
              back == MappedBack(proj.S, proj.out.mentions[k])
          IN  /\ proj.out.mentions[k].start < proj.out.mentions[k].end
              /\ IsAscending(proj.S) =>
                    /\ back = {x \in IndexSet(proj.S) : mention.start <= x /\ x < mention.end}
                    /\ mention.start \in back /\ (mention.end - 1) \in back
                    /\ (mention.start..(mention.end - 1)) \subseteq IndexSet(proj.S)
                          => back = mention.start..(mention.end - 1)

\* C30 witness: a mention of three tokens is kept by a span that omits its middle token.
C30_Witness ==
    /\ MentionsProjected /\ proj.S = <<0, 2>>
    /\ proj.sent.mentions = <<[start |-> 0, end |-> 3]>>
    /\ proj.out.mentions = <<[start |-> 0, end |-> 2]>>


\* C31: every bucket index computed for a connective candidate lies in 0..2N-2, whatever
\* sentences the candidate's arguments are in (arg1 in the last sentence and arg2 in an
\* earlier one included): no step of either connective loop indexes outside the relation
\* storage, which Python reports as an IndexError.
C31_BucketIndexInRange ==
    /\ error # "IndexError"
    /\ AtLoop("R") =>
          \A c \in CandidatesOf[len_sentences] :
             RelationsStep(len_sentences, para_eventualities, para_relations, c).err
                # "IndexError"
    /\ AtLoop("B") =>
          \A c \in {x \in CandidatesOf[len_sentences] : x.complete} :
             \A x1 \in ExtractedOf(c.arg1), x2 \in ExtractedOf(c.arg2) :
                ConnectiveStep(len_sentences, para_eventualities, para_relations,
                               c, x1, x2).err # "IndexError"


FormsIn(items) == {items[k].form : k \in DOMAIN items}

\* the form the items of a returned collection have under a requested format
FormOf(format) ==
    IF format = "json" THEN "json" ELSE IF format = "triple" THEN "triple" ELSE format

\* C32: with in_order=True extract_from_parsed_result completes without error for each
\* of the four pairs of supported formats, and every item of the returned collections has
\* the form of the requested format: encoded records for "json", triples for "triple".
C32_FormsFollowFormats ==
    (fmt.pc = "done" /\ fmt.in_order) =>
       /\ fmt.out.err = NoErr
       /\ FormsIn(Flatten(fmt.out.eventualities))
             \subseteq {FormOf(fmt.eventuality_output_format)}
       /\ FormsIn(Flatten(fmt.out.relations))
             \subseteq {FormOf(fmt.relation_output_format)}


\* C33: Relation instances are value-like: an update_relations call on one instance
\* leaves the sense weights of every other instance as they were, instances decoded from
\* another's to_dict included, and an assignment to the dict a to_dict call returned
\* changes no instance.
C33_RelationsAreValueLike ==
    /\ heap.last.op = "update_relations" =>
          \A i \in DOMAIN heap.before :
             i # heap.last.self => ValueOf(heap, i).relations = heap.before[i].relations
    /\ heap.last.op = "setitem" =>
          \A i \in DOMAIN heap.before : ValueOf(heap, i) = heap.before[i]

\* C34: the server forwards every client message it receives exactly once to exactly
\* one back-end socket, whatever the number of back sockets (>= 1): a worker command to
\* a worker socket, every other command to a database socket; none is dropped or sent
\* twice.
C34_EveryMessageForwardedOnce ==
    (srv.pc = "run" /\ srv.client_msg # NoMsg) =>
        /\ Cardinality(srv.sent) = 1
        /\ \A f \in srv.sent :
              /\ f.msg = srv.client_msg
              /\ f.id \in 0..(srv.n_concurrent_back_socks - 1)
              /\ f.socket = IF srv.client_msg.cmd \in WorkerCmds THEN "worker" ELSE "db"

\* C35: every request a worker receives produces exactly one message to the sink with
\* the request's client_id, req_id and cmd; the payload is an error value when the
\* handler raised, after which the worker goes on serving; and for each of the five
\* commands the server routes to workers the payload is the handler's result, not an
\* error, whenever the extractor succeeds on the text.
C35_EveryRequestAnsweredOnce ==
    (wrk.pc = "run" /\ wrk.msg # NoMsg) =>
        /\ Len(wrk.sink) = 1
        /\ wrk.sink[1].client_id = wrk.msg.client_id
        /\ wrk.sink[1].req_id = wrk.msg.req_id
        /\ wrk.sink[1].cmd = wrk.msg.cmd
        /\ wrk.raised # "" => wrk.sink[1].data.error
        /\ (wrk.msg.cmd \in WorkerCmds /\ ~ExtractorRaises(wrk.msg.cmd, wrk.msg.data)) =>
              wrk.sink[1].data = Response(wrk.msg.cmd, wrk.msg.data)

\* the request the worker served last reached a handler
Served == wrk.pc = "run" /\ wrk.msg # NoMsg /\ Decodes(wrk.msg.data)

ServedKey == CacheKey(wrk.msg.cmd, wrk.msg.data)

\* C36: a worker's response cache never holds more than CACHESIZE items; an insertion
\* into a cache holding CACHESIZE items first evicts exactly one item, the one inserted
\* earliest, and a cache hit does not move an item.
C36_CacheIsBoundedFifo ==
    wrk.pc = "run" =>
        /\ Len(wrk.worker_cache) <= CACHESIZE
        /\ (wrk.worker_cache # wrk.before /\ Len(wrk.before) = CACHESIZE) =>
              /\ Len(wrk.worker_cache) = CACHESIZE
              /\ \A i \in 1..(CACHESIZE - 1) : wrk.worker_cache[i] = wrk.before[i + 1]
              /\ wrk.worker_cache[CACHESIZE].key = ServedKey
        /\ (wrk.worker_cache # wrk.before /\ Len(wrk.before) < CACHESIZE) =>
              /\ Len(wrk.worker_cache) = Len(wrk.before) + 1
              /\ \A i \in DOMAIN wrk.before : wrk.worker_cache[i] = wrk.before[i]
        /\ (Served /\ HasKey(wrk.before, ServedKey)) => wrk.worker_cache = wrk.before

\* a request was served by an insertion into a cache that held CACHESIZE items
C36_Witness ==
    /\ wrk.pc = "run" /\ Len(wrk.before) = CACHESIZE
    /\ wrk.worker_cache # wrk.before

\* C37: a request whose (command, data) key is cached is answered with the cached bytes,
\* without a call of the extractor and with the cache unchanged; a request whose handler
\* fails leaves the cache unchanged, so only successful responses are cached; the key
\* holds the command, so a text cached under one command is never the answer to another
\* command on the same text.
C37_HitsAndFailuresKeepTheCache ==
    wrk.pc = "run" =>
        /\ (Served /\ HasKey(wrk.before, ServedKey)) =>
              /\ Len(wrk.sink) = 1
              /\ wrk.sink[1].data = GetItem(wrk.before, ServedKey)
              /\ ~wrk.invoked
              /\ wrk.worker_cache = wrk.before
        /\ wrk.raised # "" => wrk.worker_cache = wrk.before
        /\ \A i \in DOMAIN wrk.worker_cache :
              /\ ~wrk.worker_cache[i].value.error
              /\ wrk.worker_cache[i].value.of = wrk.worker_cache[i].key[2]
        /\ (Served /\ wrk.raised = "") =>
              wrk.sink[1].data = Response(wrk.msg.cmd, wrk.msg.data)

\* a hit on a text that is cached under another command as well
C37_Witness ==
    /\ Served /\ HasKey(wrk.before, ServedKey) /\ ~wrk.invoked
    /\ \E i \in DOMAIN wrk.before :
          /\ wrk.before[i].key[2] = wrk.msg.data
          /\ wrk.before[i].value.cmd # wrk.msg.cmd

====
